---- MODULE Spec2Model ----
(***************************************************************************)
(* Goal/step store of masir-ai (src/lib/db/queries.ts), the server actions *)
(* and routes in front of it (src/app/(chat)/actions.ts, api/goal,         *)
(* api/step), over a PostgreSQL store at READ COMMITTED.                    *)
(*                                                                         *)
(* Every `await`ed database statement is one atomic action.  A statement   *)
(* issued through `db` commits on its own; the statements of a             *)
(* db.transaction callback write to a private overlay that becomes         *)
(* visible at commit and is dropped at rollback.  A row written by an open *)
(* transaction is locked: another writer of that row waits.                *)
(***************************************************************************)
EXTENDS Integers, Sequences, FiniteSets, TLC

VARIABLES
    goals,      \* table "Goal": goal id -> row (committed)
    steps,      \* table "Step": step id -> row (committed)
    goalSeq,    \* number of goal ids handed out by gen_random_uuid()
    stepSeq,    \* number of step ids handed out by gen_random_uuid()
    proc,       \* per request: position in its handler, arguments, locals
    messages,   \* table "Message_v2": the ids of its rows
    button      \* one PlanActionButton: its useState values and its toasts

vars == <<goals, steps, goalSeq, stepSeq, proc, messages, button>>

----------------------------------------------------------------------------
(* Bounds *)

MaxGoals == 2
MaxSteps == 3

----------------------------------------------------------------------------
(* Values *)

Procs   == {"p1", "p2"}
Users   == {"u1", "u2"}
NoUser  == "anon"
GoalIds == 1 .. MaxGoals
StepIds == 1 .. MaxSteps
NULL    == "null"
\* readings of the clock, `new Date()`
Times   == {"t1", "t2"}
\* the reading of the clock at an insert, `createdAt: new Date()`: earlier
\* than every reading a later statement takes
Created == "t0"

\* an optional argument: absent (undefined) or present
None      == <<>>
Some(v)   == <<v>>
Given(o)  == o # <<>>

\* table "Chat": chat id -> owner
ChatOwner == ("c1" :> "u1") @@ ("c2" :> "u2")

\* the messages of the chats: the rows table "Message_v2" starts with
Messages == {"m1"}

Idle == [pc |-> "idle"]

\* useState(false), useState(false) (part_003 21-22); no toast yet
Unclicked == [isLoading |-> FALSE, isCreated |-> FALSE, toasts |-> <<>>]
Tomb == [deleted |-> TRUE]

\* error kinds of ChatSDKError
ErrValidation   == "bad_request:goal"
ErrNotFound     == "not_found:goal"
ErrDatabase     == "bad_request:database"
ErrUnauthorized == "unauthorized:chat"
ErrForbidden    == "forbidden:goal"
ErrChatMissing  == "not_found:chat"
ErrChatForeign  == "forbidden:chat"
ErrApi          == "bad_request:api"
Errors == {ErrValidation, ErrNotFound, ErrDatabase, ErrUnauthorized,
           ErrForbidden, ErrChatMissing, ErrChatForeign, ErrApi}

----------------------------------------------------------------------------
(* Strings are sequences of characters; String.prototype.trim *)

IsWhite(c) == c \in {" ", "\n"}

RECURSIVE TrimStart(_)
TrimStart(s) ==
    IF s = <<>> THEN <<>>
    ELSE IF IsWhite(Head(s)) THEN TrimStart(Tail(s)) ELSE s

RECURSIVE TrimEnd(_)
TrimEnd(s) ==
    IF s = <<>> THEN <<>>
    ELSE IF IsWhite(s[Len(s)]) THEN TrimEnd(SubSeq(s, 1, Len(s) - 1)) ELSE s

Trim(s) == TrimEnd(TrimStart(s))

\* `!title.trim()`
Blank(s) == Trim(s) = <<>>

----------------------------------------------------------------------------
(* Helpers over finite maps *)

Restrict(f, S) == [x \in S |-> f[x]]

Max(S) == CHOOSE x \in S : \A y \in S : y <= x

Range(s) == {s[i] : i \in DOMAIN s}

\* all orderings of the set S as sequences
Perms(S) == {q \in [1 .. Cardinality(S) -> S] : Range(q) = S}

----------------------------------------------------------------------------
(* Transactions *)

TxPcs == {"ds_select", "ds_delete", "ds_remaining", "ds_renumber",
          "gw_goal", "gw_steps",
          "ro_select", "ro_update", "bu_select", "bu_update",
          "commit"}

InTx(p) == proc[p].pc \in TxPcs

\* the step rows as seen by a statement of p: committed rows, with the
\* writes of p's own open transaction on top
StepView(p) ==
    IF InTx(p)
    THEN LET w    == proc[p].l.tsteps
             live == ((DOMAIN steps) \cup (DOMAIN w))
                        \ {s \in DOMAIN w : w[s] = Tomb}
         IN  [s \in live |-> IF s \in DOMAIN w THEN w[s] ELSE steps[s]]
    ELSE steps

GoalView(p) ==
    IF InTx(p) THEN proc[p].l.tgoals @@ goals ELSE goals

\* a row written by another open transaction is locked until that ends
Locked_Never(p, s) == FALSE

Locked(p, s) ==
    \E q \in Procs \ {p} : InTx(q) /\ s \in DOMAIN proc[q].l.tsteps

\* COMMIT: the overlay becomes the committed state
Committed(w) ==
    LET live == ((DOMAIN steps) \cup (DOMAIN w))
                   \ {s \in DOMAIN w : w[s] = Tomb}
    IN  [s \in live |-> IF s \in DOMAIN w THEN w[s] ELSE steps[s]]

\* results: a ChatSDKError of some kind, or a value
Err(e)   == [kind |-> "error", error |-> e]
Ok(v)    == [kind |-> "ok", value |-> v]
IsErr(r) == r.kind = "error"

Success  == [success |-> TRUE]
Updated  == [updated |-> TRUE]
NullRow  == [row |-> NULL]

\* the entry points of actions.ts and api/step/route.ts answer
\* {success: true} whatever the store function returned
SuccessOnly == {"updateStepStatus", "editStep", "deleteStepAction", "PUT", "DELETE"}

Ret(via, r) == IF via \in SuccessOnly /\ ~IsErr(r) THEN Ok(Success) ELSE r

\* a request in flight: the entry point, the session, the store function
\* being run with its arguments, and the locals `l` of that function
Frame(via, sess, op, arg, pc, l) ==
    [pc |-> pc, op |-> op, via |-> via, sess |-> sess, arg |-> arg, l |-> l]

At(p, pc, l) == Frame(proc[p].via, proc[p].sess, proc[p].op, proc[p].arg, pc, l)

\* the request has returned r to its caller (kept in `l` until collected)
Done(p, r) == At(p, "done", Ret(proc[p].via, r))

Returned(via, sess, op, arg, r) == Frame(via, sess, op, arg, "done", Ret(via, r))

\* ids still to be generated by a request in flight
StepsOwed(r) ==
    IF r.pc \in {"cs_goal", "cs_max", "cs_insert"} THEN 1
    ELSE IF r.pc \in {"css_max", "css_insert", "gw_goal", "gw_steps"}
         THEN Len(r.arg.steps)
    ELSE 0

GoalsOwed(r) == IF r.pc = "gw_goal" THEN 1 ELSE 0

StepRoom(k) ==
    LET owed[S \in SUBSET Procs] ==
            IF S = {} THEN 0
            ELSE LET x == CHOOSE y \in S : TRUE
                 IN  StepsOwed(proc[x]) + owed[S \ {x}]
    IN  stepSeq + owed[Procs] + k <= MaxSteps

GoalRoom(k) ==
    LET owed[S \in SUBSET Procs] ==
            IF S = {} THEN 0
            ELSE LET x == CHOOSE y \in S : TRUE
                 IN  GoalsOwed(proc[x]) + owed[S \ {x}]
    IN  goalSeq + owed[Procs] + k <= MaxGoals

----------------------------------------------------------------------------
(* Rows *)

\* WHERE goalId = g
StepsOf(g) == {s \in DOMAIN steps : steps[s].goalId = g}

OrdersOf(g) == {steps[s].order : s \in StepsOf(g)}

\* the maximum order among the goal's steps, -1 if none (createStep 826-834)
MaxOrder_Length(g) == Cardinality(StepsOf(g)) - 1

MaxOrder(g) == IF OrdersOf(g) = {} THEN -1 ELSE Max(OrdersOf(g))

\* `x ?? d`
Default(o, d) == IF Given(o) THEN o[1] ELSE d

Statuses   == {"not_started", "in_progress", "completed"}
Priorities == {"low", "medium", "high"}

\* the .values({...}) of createGoal (648-658) and createGoalWithSteps (1047-1057)
NewGoal(a) ==
    [chatId |-> a.chatId, userId |-> a.userId, title |-> a.title,
     description |-> Default(a.description, NULL),
     status |-> Default(a.status, "not_started"),
     priority |-> Default(a.priority, "medium"),
     deadline |-> Default(a.deadline, NULL),
     createdFromMessageId |-> Default(a.createdFromMessageId, NULL),
     createdAt |-> Created]

\* Goal_chatId_Chat_id_fk, Goal_userId_User_id_fk,
\* Goal_createdFromMessageId_Message_v2_id_fk
GoalInsertAllowed(a) ==
    /\ a.chatId \in DOMAIN ChatOwner
    /\ a.userId \in Users
    /\ Default(a.createdFromMessageId, NULL) \in messages \cup {NULL}

NewStep(g, title, order) ==
    [goalId |-> g, title |-> title, order |-> order,
     isCompleted |-> FALSE, completedAt |-> NULL, createdAt |-> Created]

SortedByOrder_NoOrderBy(view, g) ==
    Perms({s \in DOMAIN view : view[s].goalId = g})

\* SELECT ... WHERE goalId = g ORDER BY "order" ASC over the rows `view`:
\* every listing sorted by order (rows of equal order come in any sequence)
SortedByOrder(view, g) ==
    LET ids == {s \in DOMAIN view : view[s].goalId = g}
    IN  {q \in Perms(ids) :
            \A i, j \in DOMAIN q : i < j => view[q[i]].order <= view[q[j]].order}

----------------------------------------------------------------------------
(* createStep, queries.ts 804-857 *)

createStep_Start(p, via, sess, goalId, title, order) ==
    /\ proc[p].pc = "idle"
    /\ StepRoom(1)
    /\ LET arg == [goalId |-> goalId, title |-> title, order |-> order]
       IN  proc' = [proc EXCEPT ![p] =
                IF Blank(title)
                THEN Returned(via, sess, "createStep", arg, Err(ErrValidation))
                ELSE Frame(via, sess, "createStep", arg, "cs_goal", <<>>)]
    /\ UNCHANGED <<goals, steps, goalSeq, stepSeq, messages, button>>

createStep(p, goalId, title, order) ==
    createStep_Start(p, "store", NoUser, goalId, title, order)

\* getGoalById({id: goalId})
createStep_Goal(p) ==
    /\ proc[p].pc = "cs_goal"
    /\ proc' = [proc EXCEPT ![p] =
            IF proc[p].arg.goalId \notin DOMAIN goals
            THEN Done(p, Err(ErrNotFound))
            ELSE IF Given(proc[p].arg.order)
                 THEN At(p, "cs_insert", [stepOrder |-> proc[p].arg.order[1]])
                 ELSE At(p, "cs_max", <<>>)]
    /\ UNCHANGED <<goals, steps, goalSeq, stepSeq, messages, button>>

createStep_Max(p) ==
    /\ proc[p].pc = "cs_max"
    /\ proc' = [proc EXCEPT ![p] =
            At(p, "cs_insert", [stepOrder |-> MaxOrder(proc[p].arg.goalId) + 1])]
    /\ UNCHANGED <<goals, steps, goalSeq, stepSeq, messages, button>>

\* INSERT INTO "Step"; Step_goalId_Goal_id_fk rejects a row without its goal
StepInsertAllowed_NoForeignKey(goalId, view) == TRUE

StepInsertAllowed(goalId, view) == goalId \in DOMAIN view

createStep_Insert(p) ==
    /\ proc[p].pc = "cs_insert"
    /\ IF StepInsertAllowed(proc[p].arg.goalId, goals)
       THEN /\ steps' = steps @@ ((stepSeq + 1) :>
                    NewStep(proc[p].arg.goalId, proc[p].arg.title, proc[p].l.stepOrder))
            /\ stepSeq' = stepSeq + 1
            /\ proc' = [proc EXCEPT ![p] = Done(p, Ok([id |-> stepSeq + 1]))]
       ELSE /\ proc' = [proc EXCEPT ![p] = Done(p, Err(ErrDatabase))]
            /\ UNCHANGED <<steps, stepSeq, messages, button>>
    /\ UNCHANGED <<goals, goalSeq, messages, button>>

----------------------------------------------------------------------------
(* createSteps, queries.ts 859-891 *)

\* `order: stepData.order ?? currentOrder++` over the list, in array order
RECURSIVE AssignOrders_Consumes(_, _)
AssignOrders_Consumes(data, currentOrder) ==
    IF data = <<>> THEN <<>>
    ELSE <<[title |-> Head(data).title,
            order |-> IF Given(Head(data).order) THEN Head(data).order[1]
                      ELSE currentOrder]>>
           \o AssignOrders_Consumes(Tail(data), currentOrder + 1)

RECURSIVE AssignOrders(_, _)
AssignOrders(data, currentOrder) ==
    IF data = <<>> THEN <<>>
    ELSE IF Given(Head(data).order)
         THEN <<[title |-> Head(data).title, order |-> Head(data).order[1]]>>
                \o AssignOrders(Tail(data), currentOrder)
         ELSE <<[title |-> Head(data).title, order |-> currentOrder]>>
                \o AssignOrders(Tail(data), currentOrder + 1)

\* the rows of one multi-row INSERT, with fresh ids after `base`
InsertedSteps(base, goalId, rows) ==
    [s \in (base + 1) .. (base + Len(rows)) |->
        NewStep(goalId, rows[s - base].title, rows[s - base].order)]

\* drizzle's insert().values([]) and update().set({}) with nothing to write:
\* the builder either throws or the statement writes nothing
NothingToWrite == {"throws", "no-op"}

createSteps(p, goalId, stepsData) ==
    /\ proc[p].pc = "idle"
    /\ StepRoom(Len(stepsData))
    /\ proc' = [proc EXCEPT ![p] =
            Frame("store", NoUser, "createSteps",
                  [goalId |-> goalId, steps |-> stepsData], "css_max", <<>>)]
    /\ UNCHANGED <<goals, steps, goalSeq, stepSeq, messages, button>>

createSteps_Max(p) ==
    /\ proc[p].pc = "css_max"
    /\ proc' = [proc EXCEPT ![p] =
            At(p, "css_insert",
               [rows |-> AssignOrders(proc[p].arg.steps,
                                      MaxOrder(proc[p].arg.goalId) + 1)])]
    /\ UNCHANGED <<goals, steps, goalSeq, stepSeq, messages, button>>

createSteps_Insert(p) ==
    /\ proc[p].pc = "css_insert"
    /\ LET rows == proc[p].l.rows
           g    == proc[p].arg.goalId
       IN  IF rows = <<>>
           THEN /\ \E o \in NothingToWrite :
                     proc' = [proc EXCEPT ![p] =
                        Done(p, IF o = "throws" THEN Err(ErrDatabase) ELSE Ok([count |-> 0]))]
                /\ UNCHANGED <<steps, stepSeq, messages, button>>
           ELSE IF StepInsertAllowed(g, goals)
           THEN /\ steps' = InsertedSteps(stepSeq, g, rows) @@ steps
                /\ stepSeq' = stepSeq + Len(rows)
                /\ proc' = [proc EXCEPT ![p] = Done(p, Ok([count |-> Len(rows)]))]
           ELSE /\ proc' = [proc EXCEPT ![p] = Done(p, Err(ErrDatabase))]
                /\ UNCHANGED <<steps, stepSeq, messages, button>>
    /\ UNCHANGED <<goals, goalSeq, messages, button>>

----------------------------------------------------------------------------
(* updateStep, queries.ts 908-951 *)

\* an updateData that always holds isCompleted and completedAt
UpdateData_AllColumns(row, title, isCompleted, now) ==
    [row EXCEPT
        !.title       = IF Given(title) THEN title[1] ELSE @,
        !.isCompleted = IF Given(isCompleted) THEN isCompleted[1] ELSE FALSE,
        !.completedAt = IF Given(isCompleted) /\ isCompleted[1] THEN now ELSE NULL]

\* updateData of updateStep (932-942) applied to a row
UpdateData(row, title, isCompleted, now) ==
    [row EXCEPT
        !.title       = IF Given(title) THEN title[1] ELSE @,
        !.isCompleted = IF Given(isCompleted) THEN isCompleted[1] ELSE @,
        !.completedAt = IF Given(isCompleted)
                        THEN (IF isCompleted[1] THEN now ELSE NULL) ELSE @]

updateStep_Start(p, via, sess, id, title, isCompleted) ==
    /\ proc[p].pc = "idle"
    /\ proc' = [proc EXCEPT ![p] =
            Frame(via, sess, "updateStep",
                  [id |-> id, title |-> title, isCompleted |-> isCompleted],
                  "us_select", <<>>)]
    /\ UNCHANGED <<goals, steps, goalSeq, stepSeq, messages, button>>

updateStep(p, id, title, isCompleted) ==
    updateStep_Start(p, "store", NoUser, id, title, isCompleted)

updateStep_Select(p) ==
    /\ proc[p].pc = "us_select"
    /\ proc' = [proc EXCEPT ![p] =
            IF proc[p].arg.id \notin DOMAIN steps
            THEN Done(p, Err(ErrNotFound))
            ELSE IF Given(proc[p].arg.title) /\ Blank(proc[p].arg.title[1])
                 THEN Done(p, Err(ErrValidation))
                 ELSE At(p, "us_update", <<>>)]
    /\ UNCHANGED <<goals, steps, goalSeq, stepSeq, messages, button>>

updateStep_Update_Upsert(p) ==
    /\ proc[p].pc = "us_update"
    /\ ~Locked(p, proc[p].arg.id)
    /\ LET a == proc[p].arg
       IN  IF ~Given(a.title) /\ ~Given(a.isCompleted)
           THEN /\ \E o \in NothingToWrite :
                     proc' = [proc EXCEPT ![p] =
                        Done(p, IF o = "throws" THEN Err(ErrDatabase) ELSE Ok(Updated))]
                /\ UNCHANGED <<steps, messages, button>>
           ELSE /\ \E now \in Times :
                     steps' = IF a.id \in DOMAIN steps
                              THEN [steps EXCEPT ![a.id] =
                                      UpdateData(@, a.title, a.isCompleted, now)]
                              ELSE (a.id :> UpdateData(NewStep(1, <<"a">>, 0),
                                                       a.title, a.isCompleted, now))
                                   @@ steps
                /\ proc' = [proc EXCEPT ![p] = Done(p, Ok(Updated))]
    /\ UNCHANGED <<goals, goalSeq, stepSeq, messages, button>>

updateStep_Update(p) ==
    /\ proc[p].pc = "us_update"
    /\ ~Locked(p, proc[p].arg.id)
    /\ LET a == proc[p].arg
       IN  IF ~Given(a.title) /\ ~Given(a.isCompleted)
           THEN /\ \E o \in NothingToWrite :
                     proc' = [proc EXCEPT ![p] =
                        Done(p, IF o = "throws" THEN Err(ErrDatabase) ELSE Ok(Updated))]
                /\ UNCHANGED <<steps, messages, button>>
           ELSE /\ \E now \in Times :
                     steps' = IF a.id \in DOMAIN steps
                              THEN [steps EXCEPT ![a.id] =
                                      UpdateData(@, a.title, a.isCompleted, now)]
                              ELSE steps
                /\ proc' = [proc EXCEPT ![p] = Done(p, Ok(Updated))]
    /\ UNCHANGED <<goals, goalSeq, stepSeq, messages, button>>

----------------------------------------------------------------------------
(* toggleStepCompletion, queries.ts 988-1018 *)

\* the .set({...}) of toggleStepCompletion (1004-1007)
ToggleData_KeepsTime(row, newCompletedState, now) ==
    [row EXCEPT !.isCompleted = newCompletedState,
                !.completedAt = IF newCompletedState THEN now ELSE @]

\* the set({...}) of toggleStepCompletion (1003-1006) applied to a row
ToggleData_StoredTime(row, newCompletedState, now) ==
    [row EXCEPT !.isCompleted = newCompletedState,
                !.completedAt = IF row.isCompleted THEN NULL ELSE now]

ToggleData(row, newCompletedState, now) ==
    [row EXCEPT !.isCompleted = newCompletedState,
                !.completedAt = IF newCompletedState THEN now ELSE NULL]

toggleStepCompletion_Start(p, via, sess, id) ==
    /\ proc[p].pc = "idle"
    /\ proc' = [proc EXCEPT ![p] =
            Frame(via, sess, "toggleStepCompletion", [id |-> id], "ts_select", <<>>)]
    /\ UNCHANGED <<goals, steps, goalSeq, stepSeq, messages, button>>

toggleStepCompletion(p, id) == toggleStepCompletion_Start(p, "store", NoUser, id)

toggleStepCompletion_Select_NoFlip(p) ==
    /\ proc[p].pc = "ts_select"
    /\ proc' = [proc EXCEPT ![p] =
            IF proc[p].arg.id \notin DOMAIN steps
            THEN Done(p, Err(ErrNotFound))
            ELSE At(p, "ts_update",
                    [newCompletedState |-> steps[proc[p].arg.id].isCompleted])]
    /\ UNCHANGED <<goals, steps, goalSeq, stepSeq, messages, button>>

\* 990-1000
toggleStepCompletion_Select(p) ==
    /\ proc[p].pc = "ts_select"
    /\ proc' = [proc EXCEPT ![p] =
            IF proc[p].arg.id \notin DOMAIN steps
            THEN Done(p, Err(ErrNotFound))
            ELSE At(p, "ts_update",
                    [newCompletedState |-> ~steps[proc[p].arg.id].isCompleted])]
    /\ UNCHANGED <<goals, steps, goalSeq, stepSeq, messages, button>>

toggleStepCompletion_Update(p) ==
    /\ proc[p].pc = "ts_update"
    /\ ~Locked(p, proc[p].arg.id)
    /\ \E now \in Times :
         steps' = IF proc[p].arg.id \in DOMAIN steps
                  THEN [steps EXCEPT ![proc[p].arg.id] =
                          ToggleData(@, proc[p].l.newCompletedState, now)]
                  ELSE steps
    /\ proc' = [proc EXCEPT ![p] = Done(p, Ok(Updated))]
    /\ UNCHANGED <<goals, goalSeq, stepSeq, messages, button>>

----------------------------------------------------------------------------
(* deleteStep, queries.ts 953-986: one transaction *)

deleteStep_Start(p, via, sess, id) ==
    /\ proc[p].pc = "idle"
    /\ proc' = [proc EXCEPT ![p] =
            Frame(via, sess, "deleteStep", [id |-> id], "ds_select",
                  [tsteps |-> <<>>, tgoals |-> <<>>])]
    /\ UNCHANGED <<goals, steps, goalSeq, stepSeq, messages, button>>

deleteStep(p, id) == deleteStep_Start(p, "store", NoUser, id)

deleteStep_Select_NotFound(p) ==
    /\ proc[p].pc = "ds_select"
    /\ LET id == proc[p].arg.id
       IN  proc' = [proc EXCEPT ![p] =
                IF id \in DOMAIN StepView(p)
                THEN At(p, "ds_delete",
                        proc[p].l @@ [goalId |-> StepView(p)[id].goalId])
                ELSE Done(p, Err(ErrNotFound))]
    /\ UNCHANGED <<goals, steps, goalSeq, stepSeq, messages, button>>

\* 956-964: the row to delete; the callback returns null when there is none
deleteStep_Select(p) ==
    /\ proc[p].pc = "ds_select"
    /\ LET id == proc[p].arg.id
       IN  proc' = [proc EXCEPT ![p] =
                IF id \in DOMAIN StepView(p)
                THEN At(p, "ds_delete",
                        proc[p].l @@ [goalId |-> StepView(p)[id].goalId])
                ELSE At(p, "commit", proc[p].l @@ [result |-> Ok(NullRow)])]
    /\ UNCHANGED <<goals, steps, goalSeq, stepSeq, messages, button>>

\* 966
deleteStep_Delete_NoTransaction(p) ==
    /\ proc[p].pc = "ds_delete"
    /\ ~Locked(p, proc[p].arg.id)
    /\ steps' = [s \in DOMAIN steps \ {proc[p].arg.id} |-> steps[s]]
    /\ proc' = [proc EXCEPT ![p] = At(p, "ds_remaining", proc[p].l)]
    /\ UNCHANGED <<goals, goalSeq, stepSeq, messages, button>>

deleteStep_Delete(p) ==
    /\ proc[p].pc = "ds_delete"
    /\ ~Locked(p, proc[p].arg.id)
    /\ LET id == proc[p].arg.id
       IN  proc' = [proc EXCEPT ![p] =
                At(p, "ds_remaining",
                   [proc[p].l EXCEPT !.tsteps =
                        IF id \in DOMAIN StepView(p) THEN (id :> Tomb) @@ @ ELSE @])]
    /\ UNCHANGED <<goals, steps, goalSeq, stepSeq, messages, button>>

deleteStep_Remaining_AllGoals(p) ==
    /\ proc[p].pc = "ds_remaining"
    /\ \E remainingSteps \in
            SortedByOrder([s \in DOMAIN StepView(p) |->
                              [StepView(p)[s] EXCEPT !.goalId = proc[p].l.goalId]],
                          proc[p].l.goalId) :
            proc' = [proc EXCEPT ![p] =
                At(p, "ds_renumber",
                   proc[p].l @@ [remainingSteps |-> remainingSteps, i |-> 1])]
    /\ UNCHANGED <<goals, steps, goalSeq, stepSeq, messages, button>>

\* 968-972
deleteStep_Remaining(p) ==
    /\ proc[p].pc = "ds_remaining"
    /\ \E remainingSteps \in SortedByOrder(StepView(p), proc[p].l.goalId) :
            proc' = [proc EXCEPT ![p] =
                At(p, "ds_renumber",
                   proc[p].l @@ [remainingSteps |-> remainingSteps, i |-> 1])]
    /\ UNCHANGED <<goals, steps, goalSeq, stepSeq, messages, button>>

RenumberedOrder_FromOne(i) == i + 1

\* the i-th (0-based) remaining step gets order i (974-979)
RenumberedOrder(i) == i

\* 974-979, one UPDATE per pass of the loop; the loop's exit returns the row
deleteStep_Renumber(p) ==
    /\ proc[p].pc = "ds_renumber"
    /\ LET l == proc[p].l
       IN  IF l.i > Len(l.remainingSteps)
           THEN proc' = [proc EXCEPT ![p] =
                    At(p, "commit",
                       l @@ [result |-> Ok([id |-> proc[p].arg.id, goalId |-> l.goalId])])]
           ELSE LET s == l.remainingSteps[l.i]
                IN  /\ ~Locked(p, s)
                    /\ proc' = [proc EXCEPT ![p] =
                          At(p, "ds_renumber",
                             [l EXCEPT
                                !.i = @ + 1,
                                !.tsteps =
                                    IF s \in DOMAIN StepView(p)
                                    THEN (s :> [StepView(p)[s] EXCEPT
                                                  !.order = RenumberedOrder(l.i - 1)]) @@ @
                                    ELSE @])]
    /\ UNCHANGED <<goals, steps, goalSeq, stepSeq, messages, button>>

----------------------------------------------------------------------------
(* the end of a db.transaction callback *)

\* the callback returned: COMMIT
TxCommit(p) ==
    /\ proc[p].pc = "commit"
    /\ steps' = Committed(proc[p].l.tsteps)
    /\ goals' = proc[p].l.tgoals @@ goals
    /\ proc' = [proc EXCEPT ![p] = Done(p, proc[p].l.result)]
    /\ UNCHANGED <<goalSeq, stepSeq, messages, button>>

TxFail_KeepsWrites(p) ==
    /\ InTx(p)
    /\ steps' = Committed(proc[p].l.tsteps)
    /\ goals' = proc[p].l.tgoals @@ goals
    /\ proc' = [proc EXCEPT ![p] = Done(p, Err(ErrDatabase))]
    /\ UNCHANGED <<goalSeq, stepSeq, messages, button>>

\* a statement of the transaction (or its COMMIT) fails in the store:
\* ROLLBACK, and the catch block of the function wraps the failure
TxFail(p) ==
    /\ InTx(p)
    /\ proc' = [proc EXCEPT ![p] = Done(p, Err(ErrDatabase))]
    /\ UNCHANGED <<goals, steps, goalSeq, stepSeq, messages, button>>

\* the caller has its answer; the request is over
Return(p) ==
    /\ proc[p].pc = "done"
    /\ proc' = [proc EXCEPT ![p] = Idle]
    /\ UNCHANGED <<goals, steps, goalSeq, stepSeq, messages, button>>

----------------------------------------------------------------------------
(* createGoal, queries.ts 608-668 *)

\* 628-644
GoalArgsInvalid(title, status, priority) ==
    \/ Given(title) /\ Blank(title[1])
    \/ Given(status) /\ status[1] \notin Statuses
    \/ Given(priority) /\ priority[1] \notin Priorities

createGoal(p, a) ==
    /\ proc[p].pc = "idle"
    /\ GoalRoom(1)
    /\ IF GoalArgsInvalid(Some(a.title), a.status, a.priority)
       THEN /\ proc' = [proc EXCEPT ![p] =
                    Returned("store", NoUser, "createGoal", a, Err(ErrValidation))]
            /\ UNCHANGED <<goals, goalSeq, messages, button>>
       ELSE IF ~GoalInsertAllowed(a)
       THEN /\ proc' = [proc EXCEPT ![p] =
                    Returned("store", NoUser, "createGoal", a, Err(ErrDatabase))]
            /\ UNCHANGED <<goals, goalSeq, messages, button>>
       ELSE /\ goals' = ((goalSeq + 1) :> NewGoal(a)) @@ goals
            /\ goalSeq' = goalSeq + 1
            /\ proc' = [proc EXCEPT ![p] =
                    Returned("store", NoUser, "createGoal", a, Ok([id |-> goalSeq + 1]))]
    /\ UNCHANGED <<steps, stepSeq, messages, button>>

----------------------------------------------------------------------------
(* deleteGoal, queries.ts 789-800; Step_goalId_Goal_id_fk ON DELETE cascade *)

\* the step rows left by DELETE FROM "Goal" WHERE id = g
Cascade(g) == Restrict(steps, {s \in DOMAIN steps : steps[s].goalId # g})

deleteGoal(p, id) ==
    /\ proc[p].pc = "idle"
    /\ \A s \in DOMAIN steps : steps[s].goalId = id => ~Locked(p, s)
    /\ goals' = Restrict(goals, DOMAIN goals \ {id})
    /\ steps' = IF id \in DOMAIN goals THEN Cascade(id) ELSE steps
    /\ proc' = [proc EXCEPT ![p] =
            Returned("store", NoUser, "deleteGoal", [id |-> id],
                     IF id \in DOMAIN goals THEN Ok([id |-> id]) ELSE Ok(NullRow))]
    /\ UNCHANGED <<goalSeq, stepSeq, messages, button>>

----------------------------------------------------------------------------
(* createGoalWithSteps, queries.ts 1022-1083: one transaction *)

createGoalWithSteps_Start(p, via, sess, a) ==
    /\ proc[p].pc = "idle"
    /\ GoalRoom(1)
    /\ StepRoom(Len(a.steps))
    /\ proc' = [proc EXCEPT ![p] =
            Frame(via, sess, "createGoalWithSteps", a, "gw_goal",
                  [tsteps |-> <<>>, tgoals |-> <<>>])]
    /\ UNCHANGED <<goals, steps, goalSeq, stepSeq, messages, button>>

createGoalWithSteps(p, a) == createGoalWithSteps_Start(p, "store", NoUser, a)

\* 1045-1058
createGoalWithSteps_Goal(p) ==
    /\ proc[p].pc = "gw_goal"
    /\ IF GoalInsertAllowed(proc[p].arg)
       THEN /\ goalSeq' = goalSeq + 1
            /\ proc' = [proc EXCEPT ![p] =
                    At(p, "gw_steps",
                       [proc[p].l EXCEPT !.tgoals =
                            (goalSeq + 1) :> NewGoal(proc[p].arg)]
                       @@ [createdGoal |-> goalSeq + 1])]
       ELSE /\ proc' = [proc EXCEPT ![p] = Done(p, Err(ErrDatabase))]
            /\ UNCHANGED <<goalSeq, messages, button>>
    /\ UNCHANGED <<goals, steps, stepSeq, messages, button>>

\* `order: stepData.order ?? index` (1060-1066), index 0-based
PlanOrder_FromOne(stepData, index) == Default(stepData.order, index + 1)

\* 1063
PlanOrder(stepData, index) == Default(stepData.order, index)

RECURSIVE IndexOrders(_, _)
IndexOrders(data, index) ==
    IF data = <<>> THEN <<>>
    ELSE <<[title |-> Head(data).title, order |-> PlanOrder(Head(data), index)]>>
         \o IndexOrders(Tail(data), index + 1)

\* 1060-1073
createGoalWithSteps_Steps(p) ==
    /\ proc[p].pc = "gw_steps"
    /\ LET l    == proc[p].l
           rows == IndexOrders(proc[p].arg.steps, 0)
           ids  == [i \in 1 .. Len(rows) |-> stepSeq + i]
       IN  IF rows = <<>>
           THEN /\ \E o \in NothingToWrite :
                     proc' = [proc EXCEPT ![p] =
                        IF o = "throws" THEN Done(p, Err(ErrDatabase))
                        ELSE At(p, "commit",
                                l @@ [result |-> Ok([goal |-> l.createdGoal, steps |-> <<>>])])]
                /\ UNCHANGED <<stepSeq, messages, button>>
           ELSE /\ stepSeq' = stepSeq + Len(rows)
                /\ proc' = [proc EXCEPT ![p] =
                        At(p, "commit",
                           [l EXCEPT !.tsteps =
                                InsertedSteps(stepSeq, l.createdGoal, rows)]
                           @@ [result |-> Ok([goal |-> l.createdGoal, steps |-> ids])])]
    /\ UNCHANGED <<goals, steps, goalSeq, messages, button>>

----------------------------------------------------------------------------
(* reorderSteps, queries.ts 1109-1144: one transaction *)

reorderSteps(p, goalId, stepOrders) ==
    /\ proc[p].pc = "idle"
    /\ proc' = [proc EXCEPT ![p] =
            Frame("store", NoUser, "reorderSteps",
                  [goalId |-> goalId, entries |-> stepOrders], "ro_select",
                  [tsteps |-> <<>>, tgoals |-> <<>>, i |-> 1])]
    /\ UNCHANGED <<goals, steps, goalSeq, stepSeq, messages, button>>

\* WHERE id = stepId AND goalId = goalId (1119-1123, 1161-1165)
BelongsTo(view, stepId, goalId) ==
    stepId \in DOMAIN view /\ view[stepId].goalId = goalId

reorderSteps_Select_NoRollback(p) ==
    /\ proc[p].pc = "ro_select"
    /\ LET l == proc[p].l
           a == proc[p].arg
           missing == /\ l.i <= Len(a.entries)
                      /\ ~BelongsTo(StepView(p), a.entries[l.i].id, a.goalId)
       IN  /\ proc' = [proc EXCEPT ![p] =
                IF l.i > Len(a.entries)
                THEN At(p, "commit", l @@ [result |-> Ok(NullRow)])
                ELSE IF missing THEN Done(p, Err(ErrNotFound))
                     ELSE At(p, "ro_update", l)]
           /\ steps' = IF missing THEN Committed(l.tsteps) ELSE steps
    /\ UNCHANGED <<goals, goalSeq, stepSeq, messages, button>>

\* 1118-1130; past the last entry the callback returns
reorderSteps_Select(p) ==
    /\ proc[p].pc = "ro_select"
    /\ LET l == proc[p].l
           a == proc[p].arg
       IN  proc' = [proc EXCEPT ![p] =
                IF l.i > Len(a.entries)
                THEN At(p, "commit", l @@ [result |-> Ok(NullRow)])
                ELSE IF BelongsTo(StepView(p), a.entries[l.i].id, a.goalId)
                     THEN At(p, "ro_update", l)
                     ELSE Done(p, Err(ErrNotFound))]
    /\ UNCHANGED <<goals, steps, goalSeq, stepSeq, messages, button>>

reorderSteps_Update_Unique(p) ==
    /\ proc[p].pc = "ro_update"
    /\ LET l == proc[p].l
           e == proc[p].arg.entries[l.i]
           v == StepView(p)
           taken == \E t \in DOMAIN v :
                       /\ t # e.id
                       /\ v[t].goalId = proc[p].arg.goalId
                       /\ v[t].order = e.order
       IN  /\ ~Locked(p, e.id)
           /\ proc' = [proc EXCEPT ![p] =
                 At(p, "ro_select",
                    [l EXCEPT
                       !.i = @ + 1,
                       !.tsteps =
                           IF e.id \in DOMAIN v /\ ~taken
                           THEN (e.id :> [v[e.id] EXCEPT !.order = e.order]) @@ @
                           ELSE @])]
    /\ UNCHANGED <<goals, steps, goalSeq, stepSeq, messages, button>>

\* 1132-1135
reorderSteps_Update(p) ==
    /\ proc[p].pc = "ro_update"
    /\ LET l == proc[p].l
           e == proc[p].arg.entries[l.i]
       IN  /\ ~Locked(p, e.id)
           /\ proc' = [proc EXCEPT ![p] =
                 At(p, "ro_select",
                    [l EXCEPT
                       !.i = @ + 1,
                       !.tsteps =
                           IF e.id \in DOMAIN StepView(p)
                           THEN (e.id :> [StepView(p)[e.id] EXCEPT !.order = e.order]) @@ @
                           ELSE @])]
    /\ UNCHANGED <<goals, steps, goalSeq, stepSeq, messages, button>>

----------------------------------------------------------------------------
(* bulkUpdateSteps, queries.ts 1146-1200: one transaction *)

\* updateData of bulkUpdateSteps (1174-1186) applied to a row
BulkData(row, u, now) ==
    [row EXCEPT
        !.title       = IF Given(u.title) THEN u.title[1] ELSE @,
        !.isCompleted = IF Given(u.isCompleted) THEN u.isCompleted[1] ELSE @,
        !.completedAt = IF Given(u.isCompleted)
                        THEN (IF u.isCompleted[1] THEN now ELSE NULL) ELSE @,
        !.order       = IF Given(u.order) THEN u.order[1] ELSE @]

bulkUpdateSteps(p, goalId, updates) ==
    /\ proc[p].pc = "idle"
    /\ proc' = [proc EXCEPT ![p] =
            Frame("store", NoUser, "bulkUpdateSteps",
                  [goalId |-> goalId, entries |-> updates], "bu_select",
                  [tsteps |-> <<>>, tgoals |-> <<>>, i |-> 1])]
    /\ UNCHANGED <<goals, steps, goalSeq, stepSeq, messages, button>>

\* 1160-1172
bulkUpdateSteps_Select_NoRollback(p) ==
    /\ proc[p].pc = "bu_select"
    /\ LET l == proc[p].l
           a == proc[p].arg
           missing == /\ l.i <= Len(a.entries)
                      /\ ~BelongsTo(StepView(p), a.entries[l.i].id, a.goalId)
       IN  /\ proc' = [proc EXCEPT ![p] =
                IF l.i > Len(a.entries)
                THEN At(p, "commit", l @@ [result |-> Ok(NullRow)])
                ELSE IF missing THEN Done(p, Err(ErrNotFound))
                     ELSE At(p, "bu_update", l)]
           /\ steps' = IF missing THEN Committed(l.tsteps) ELSE steps
    /\ UNCHANGED <<goals, goalSeq, stepSeq, messages, button>>

bulkUpdateSteps_Select(p) ==
    /\ proc[p].pc = "bu_select"
    /\ LET l == proc[p].l
           a == proc[p].arg
       IN  proc' = [proc EXCEPT ![p] =
                IF l.i > Len(a.entries)
                THEN At(p, "commit", l @@ [result |-> Ok(NullRow)])
                ELSE IF BelongsTo(StepView(p), a.entries[l.i].id, a.goalId)
                     THEN At(p, "bu_update", l)
                     ELSE Done(p, Err(ErrNotFound))]
    /\ UNCHANGED <<goals, steps, goalSeq, stepSeq, messages, button>>

\* 1174-1188
bulkUpdateSteps_Update(p) ==
    /\ proc[p].pc = "bu_update"
    /\ LET l == proc[p].l
           u == proc[p].arg.entries[l.i]
       IN  /\ ~Locked(p, u.id)
           /\ IF ~Given(u.title) /\ ~Given(u.isCompleted) /\ ~Given(u.order)
              THEN \E o \in NothingToWrite :
                     proc' = [proc EXCEPT ![p] =
                        IF o = "throws" THEN Done(p, Err(ErrDatabase))
                        ELSE At(p, "bu_select", [l EXCEPT !.i = @ + 1])]
              ELSE \E now \in Times :
                     proc' = [proc EXCEPT ![p] =
                       At(p, "bu_select",
                          [l EXCEPT
                             !.i = @ + 1,
                             !.tsteps =
                                 IF u.id \in DOMAIN StepView(p)
                                 THEN (u.id :> BulkData(StepView(p)[u.id], u, now)) @@ @
                                 ELSE @])]
    /\ UNCHANGED <<goals, steps, goalSeq, stepSeq, messages, button>>

----------------------------------------------------------------------------
(* updateGoal, queries.ts 726-787 *)

\* updateData of updateGoal (766-778) applied to a row
GoalUpdateData_Defaults(row, a) ==
    [row EXCEPT
        !.title       = IF Given(a.title) THEN a.title[1] ELSE @,
        !.description = Default(a.description, NULL),
        !.status      = Default(a.status, "not_started"),
        !.priority    = Default(a.priority, "medium"),
        !.deadline    = Default(a.deadline, NULL)]

GoalUpdateData(row, a) ==
    [row EXCEPT
        !.title       = IF Given(a.title) THEN a.title[1] ELSE @,
        !.description = IF Given(a.description) THEN a.description[1] ELSE @,
        !.status      = IF Given(a.status) THEN a.status[1] ELSE @,
        !.priority    = IF Given(a.priority) THEN a.priority[1] ELSE @,
        !.deadline    = IF Given(a.deadline) THEN a.deadline[1] ELSE @]

updateGoal(p, a) ==
    /\ proc[p].pc = "idle"
    /\ proc' = [proc EXCEPT ![p] =
            Frame("store", NoUser, "updateGoal", a, "ug_select", <<>>)]
    /\ UNCHANGED <<goals, steps, goalSeq, stepSeq, messages, button>>

\* 742-764
updateGoal_Select(p) ==
    /\ proc[p].pc = "ug_select"
    /\ LET a == proc[p].arg
       IN  proc' = [proc EXCEPT ![p] =
                IF a.id \notin DOMAIN goals
                THEN Done(p, Err(ErrNotFound))
                ELSE IF GoalArgsInvalid(a.title, a.status, a.priority)
                     THEN Done(p, Err(ErrValidation))
                     ELSE At(p, "ug_update", <<>>)]
    /\ UNCHANGED <<goals, steps, goalSeq, stepSeq, messages, button>>

\* 780
updateGoal_Update(p) ==
    /\ proc[p].pc = "ug_update"
    /\ LET a == proc[p].arg
       IN  IF \A f \in {"title", "description", "status", "priority", "deadline"} :
                  ~Given(a[f])
           THEN /\ \E o \in NothingToWrite :
                     proc' = [proc EXCEPT ![p] =
                        Done(p, IF o = "throws" THEN Err(ErrDatabase) ELSE Ok(Updated))]
                /\ UNCHANGED <<goals, messages, button>>
           ELSE /\ goals' = IF a.id \in DOMAIN goals
                            THEN [goals EXCEPT ![a.id] = GoalUpdateData(@, a)]
                            ELSE goals
                /\ proc' = [proc EXCEPT ![p] = Done(p, Ok(Updated))]
    /\ UNCHANGED <<steps, goalSeq, stepSeq, messages, button>>

----------------------------------------------------------------------------
(* Server actions, src/app/(chat)/actions.ts *)

Authenticated_Anyone(sess) == TRUE

\* `session?.user` of `await auth()`
Authenticated(sess) == sess # NoUser

\* the request is answered at once, before any statement
Refuse(p, via, sess, arg, e) ==
    /\ proc' = [proc EXCEPT ![p] = Returned(via, sess, via, arg, Err(e))]
    /\ UNCHANGED <<goals, steps, goalSeq, stepSeq, messages, button>>

\* steps.map((step) => ({title: step.title.trim(), order: step.order}))
TrimTitles(data) == [i \in DOMAIN data |-> [data[i] EXCEPT !.title = Trim(@)]]

\* createGoalFromPlan, 60-120
createGoalFromPlan_AnyChat(p, sess, chatId, messageId, goalTitle, goalDescription, stepsData) ==
    LET arg == [chatId |-> chatId, messageId |-> messageId, goalTitle |-> goalTitle,
                goalDescription |-> goalDescription, steps |-> stepsData]
    IN  /\ proc[p].pc = "idle"
        /\ IF ~Authenticated(sess)
           THEN Refuse(p, "createGoalFromPlan", sess, arg, ErrUnauthorized)
           ELSE IF chatId \notin DOMAIN ChatOwner
           THEN Refuse(p, "createGoalFromPlan", sess, arg, ErrChatMissing)
           ELSE IF Blank(goalTitle) \/ Len(stepsData) = 0
           THEN Refuse(p, "createGoalFromPlan", sess, arg, ErrValidation)
           ELSE createGoalWithSteps_Start(p, "createGoalFromPlan", sess,
                    [chatId |-> chatId, userId |-> sess, title |-> Trim(goalTitle),
                     description |-> IF Given(goalDescription)
                                     THEN Some(Trim(goalDescription[1]))
                                     ELSE Some(NULL),
                     status |-> None, priority |-> None, deadline |-> None,
                     createdFromMessageId |-> Some(messageId),
                     steps |-> TrimTitles(stepsData)])

createGoalFromPlan(p, sess, chatId, messageId, goalTitle, goalDescription, stepsData) ==
    LET arg == [chatId |-> chatId, messageId |-> messageId, goalTitle |-> goalTitle,
                goalDescription |-> goalDescription, steps |-> stepsData]
    IN  /\ proc[p].pc = "idle"
        /\ IF ~Authenticated(sess)
           THEN Refuse(p, "createGoalFromPlan", sess, arg, ErrUnauthorized)
           ELSE IF chatId \notin DOMAIN ChatOwner
           THEN Refuse(p, "createGoalFromPlan", sess, arg, ErrChatMissing)
           ELSE IF ChatOwner[chatId] # sess
           THEN Refuse(p, "createGoalFromPlan", sess, arg, ErrChatForeign)
           ELSE IF Blank(goalTitle) \/ Len(stepsData) = 0
           THEN Refuse(p, "createGoalFromPlan", sess, arg, ErrValidation)
           ELSE createGoalWithSteps_Start(p, "createGoalFromPlan", sess,
                    [chatId |-> chatId, userId |-> sess, title |-> Trim(goalTitle),
                     description |-> IF Given(goalDescription)
                                     THEN Some(Trim(goalDescription[1]))
                                     ELSE Some(NULL),
                     status |-> None, priority |-> None, deadline |-> None,
                     createdFromMessageId |-> Some(messageId),
                     steps |-> TrimTitles(stepsData)])

\* updateStepStatus, 122-141
updateStepStatus(p, sess, stepId) ==
    /\ proc[p].pc = "idle"
    /\ IF ~Authenticated(sess)
       THEN Refuse(p, "updateStepStatus", sess, [id |-> stepId], ErrUnauthorized)
       ELSE toggleStepCompletion_Start(p, "updateStepStatus", sess, stepId)

\* editStep, 143-169
editStep(p, sess, stepId, title) ==
    /\ proc[p].pc = "idle"
    /\ IF ~Authenticated(sess)
       THEN Refuse(p, "editStep", sess, [id |-> stepId], ErrUnauthorized)
       ELSE IF Blank(title)
       THEN Refuse(p, "editStep", sess, [id |-> stepId], ErrValidation)
       ELSE updateStep_Start(p, "editStep", sess, stepId, Some(Trim(title)), None)

\* deleteStepAction, 171-187
deleteStepAction(p, sess, stepId) ==
    /\ proc[p].pc = "idle"
    /\ IF ~Authenticated(sess)
       THEN Refuse(p, "deleteStepAction", sess, [id |-> stepId], ErrUnauthorized)
       ELSE deleteStep_Start(p, "deleteStepAction", sess, stepId)

----------------------------------------------------------------------------
(* Routes, src/app/(chat)/api/step/route.ts and api/goal/route.ts *)

\* a request body that request.json() cannot parse
Malformed == [malformed |-> TRUE]

\* PUT /api/step?id=..., body {title?, isCompleted?}
PUT(p, sess, id, body) ==
    /\ proc[p].pc = "idle"
    /\ IF ~Given(id)
       THEN Refuse(p, "PUT", sess, [id |-> id], ErrApi)
       ELSE IF ~Authenticated(sess)
       THEN Refuse(p, "PUT", sess, [id |-> id], ErrUnauthorized)
       ELSE IF body = Malformed
       THEN Refuse(p, "PUT", sess, [id |-> id], ErrDatabase)
       ELSE IF Given(body.title) /\ Blank(body.title[1])
       THEN Refuse(p, "PUT", sess, [id |-> id], ErrValidation)
       ELSE updateStep_Start(p, "PUT", sess, id[1], body.title, body.isCompleted)

\* DELETE /api/step?id=...
DELETE(p, sess, id) ==
    /\ proc[p].pc = "idle"
    /\ IF ~Given(id)
       THEN Refuse(p, "DELETE", sess, [id |-> id], ErrApi)
       ELSE IF ~Authenticated(sess)
       THEN Refuse(p, "DELETE", sess, [id |-> id], ErrUnauthorized)
       ELSE deleteStep_Start(p, "DELETE", sess, id[1])

Owns_Anyone(sess, row) == TRUE

\* `goal.userId !== session.user.id` (goal route 31)
Owns(sess, row) == row.userId = sess

\* getGoalsByChatId, queries.ts 695-710
GoalsByChatId(chatId) == {g \in DOMAIN goals : goals[g].chatId = chatId}

\* GET /api/goal?id=...&chatId=...&withSteps=...
GET(p, sess, id, chatId, withSteps) ==
    LET arg == [id |-> id, chatId |-> chatId, withSteps |-> withSteps]
    IN  /\ proc[p].pc = "idle"
        /\ IF ~Authenticated(sess)
           THEN Refuse(p, "GET", sess, arg, ErrUnauthorized)
           ELSE IF Given(id)
           THEN /\ proc' = [proc EXCEPT ![p] =
                        Frame("GET", sess, "GET", arg, "gg_goal", <<>>)]
                /\ UNCHANGED <<goals, steps, goalSeq, stepSeq, messages, button>>
           ELSE IF Given(chatId)
           THEN /\ proc' = [proc EXCEPT ![p] =
                        Frame("GET", sess, "GET", arg, "gg_chat", <<>>)]
                /\ UNCHANGED <<goals, steps, goalSeq, stepSeq, messages, button>>
           ELSE Refuse(p, "GET", sess, arg, ErrApi)

\* the answer of the id lookup (goal route 27-35)
GoalAnswer(sess, id, row, listed) ==
    IF ~Owns(sess, row)
    THEN Err(ErrForbidden)
    ELSE Ok([id |-> id, goal |-> row, steps |-> listed])

\* getGoalById (queries.ts 712-724), for either form of the lookup
GET_Goal(p) ==
    /\ proc[p].pc = "gg_goal"
    /\ LET id == proc[p].arg.id[1]
       IN  proc' = [proc EXCEPT ![p] =
                IF id \notin DOMAIN goals
                THEN Done(p, Err(ErrNotFound))
                ELSE IF proc[p].arg.withSteps
                     THEN At(p, "gg_steps", [selectedGoal |-> goals[id]])
                     ELSE Done(p, GoalAnswer(proc[p].sess, id, goals[id], None))]
    /\ UNCHANGED <<goals, steps, goalSeq, stepSeq, messages, button>>

\* getStepsByGoalId (queries.ts 893-906) inside getGoalByIdWithSteps (1085-1105)
GET_Steps(p) ==
    /\ proc[p].pc = "gg_steps"
    /\ LET id == proc[p].arg.id[1]
       IN  \E listing \in SortedByOrder(steps, id) :
              proc' = [proc EXCEPT ![p] =
                 Done(p, GoalAnswer(proc[p].sess, id, proc[p].l.selectedGoal,
                                    Some(listing)))]
    /\ UNCHANGED <<goals, steps, goalSeq, stepSeq, messages, button>>

\* the chatId lookup (goal route 38-42)
GET_Chat(p) ==
    /\ proc[p].pc = "gg_chat"
    /\ proc' = [proc EXCEPT ![p] =
            Done(p, Ok([goals |-> GoalsByChatId(proc[p].arg.chatId[1])]))]
    /\ UNCHANGED <<goals, steps, goalSeq, stepSeq, messages, button>>

----------------------------------------------------------------------------
(* The store functions called one at a time *)

Init ==
    /\ goals = <<>>
    /\ steps = <<>>
    /\ goalSeq = 0
    /\ stepSeq = 0
    /\ proc = [p \in Procs |-> Idle]
    /\ messages = Messages
    /\ button = Unclicked

Ta == <<"a">>

\* ids are generated by the store (defaultRandom) and reach a caller only in
\* a committed row: the ids a request can name are those handed out so far,
\* less those of goals still uncommitted
KnownGoals ==
    {g \in 1 .. goalSeq : \A q \in Procs : InTx(q) => g \notin DOMAIN proc[q].l.tgoals}

GoalArgs(chatId, userId, title) ==
    [chatId |-> chatId, userId |-> userId, title |-> title,
     description |-> None, status |-> None, priority |-> None,
     deadline |-> None, createdFromMessageId |-> None]

\* explicit orders leave gaps and duplicates
OrderInputs == {None, Some(0), Some(2)}

Next ==
    \E p \in {"p1"} :
        \/ createGoal(p, GoalArgs("c1", "u1", Ta))
        \/ \E g \in KnownGoals : deleteGoal(p, g)
        \/ \E g \in GoalIds, o \in OrderInputs : createStep(p, g, Ta, o)
        \/ createStep_Goal(p)
        \/ createStep_Max(p)
        \/ createStep_Insert(p)
        \/ \E s \in StepIds : deleteStep(p, s)
        \/ deleteStep_Select(p)
        \/ deleteStep_Delete(p)
        \/ deleteStep_Remaining(p)
        \/ deleteStep_Renumber(p)
        \/ TxCommit(p)
        \/ TxFail(p)
        \/ Return(p)

Spec == Init /\ [][Next]_vars

----------------------------------------------------------------------------
(* Ingestion of a plan, one request at a time: createGoalWithSteps, called  *)
(* directly and through createGoalFromPlan                                   *)

\* a step of a plan: {title, order?}
PlanSteps == {[title |-> Ta, order |-> None], [title |-> Ta, order |-> Some(2)]}

RECURSIVE SeqsUpTo(_, _)
SeqsUpTo(S, n) ==
    IF n = 0 THEN {<<>>}
    ELSE LET shorter == SeqsUpTo(S, n - 1)
         IN  shorter \cup {Append(q, x) : q \in {r \in shorter : Len(r) = n - 1}, x \in S}

PlanLists == SeqsUpTo(PlanSteps, MaxSteps)

NextIngest ==
    \E p \in {"p1"} :
        \/ \E l \in PlanLists :
              createGoalWithSteps(p, GoalArgs("c1", "u1", Ta) @@ [steps |-> l])
        \/ \E l \in {q \in PlanLists : Len(q) <= 1} :
              createGoalFromPlan(p, "u1", "c1", "m1", <<" ", "a">>, Some(<<"a", " ">>), l)
        \/ createGoalWithSteps_Goal(p)
        \/ createGoalWithSteps_Steps(p)
        \/ TxCommit(p)
        \/ TxFail(p)
        \/ Return(p)

SpecIngest == Init /\ [][NextIngest]_vars

----------------------------------------------------------------------------
(* Goal titles, one request at a time: createGoal, updateGoal,              *)
(* createGoalWithSteps, createGoalFromPlan                                   *)

TitleInputs == {<<>>, <<" ">>, Ta, <<" ", "a">>}

OneStep == <<[title |-> Ta, order |-> None]>>

NextGoal ==
    \E p \in {"p1"} :
        \/ \E t \in TitleInputs : createGoal(p, GoalArgs("c1", "u1", t))
        \/ \E g \in GoalIds, t \in {None} \cup {Some(x) : x \in TitleInputs} :
              updateGoal(p, [id |-> g, title |-> t, description |-> None,
                             status |-> None, priority |-> None, deadline |-> None])
        \/ updateGoal_Select(p)
        \/ updateGoal_Update(p)
        \/ \E t \in TitleInputs :
              createGoalWithSteps(p, GoalArgs("c1", "u1", t) @@ [steps |-> OneStep])
        \/ \E t \in TitleInputs :
              createGoalFromPlan(p, "u1", "c1", "m1", t, None, OneStep)
        \/ createGoalWithSteps_Goal(p)
        \/ createGoalWithSteps_Steps(p)
        \/ TxCommit(p)
        \/ TxFail(p)
        \/ Return(p)

SpecGoal == Init /\ [][NextGoal]_vars

----------------------------------------------------------------------------
(* The server actions and routes, one request at a time *)

Sessions == Users \cup {NoUser}

PutBodies == {Malformed,
              [title |-> None, isCompleted |-> Some(TRUE)],
              [title |-> Some(<<>>), isCompleted |-> None]}

ApiEntries == {"createGoalFromPlan", "updateStepStatus", "editStep",
               "deleteStepAction", "PUT", "DELETE", "GET"}

NextApi ==
    \E p \in {"p1"} :
        \/ \E sess \in Sessions, c \in {"c0", "c1", "c2"} :
              createGoalFromPlan(p, sess, c, "m1", Ta, None,
                                 <<[title |-> Ta, order |-> None]>>)
        \/ createGoalWithSteps_Goal(p)
        \/ createGoalWithSteps_Steps(p)
        \/ \E sess \in Sessions, s \in StepIds : updateStepStatus(p, sess, s)
        \/ toggleStepCompletion_Select(p)
        \/ toggleStepCompletion_Update(p)
        \/ \E sess \in Sessions, s \in StepIds, t \in {<<"a", " ">>, <<" ">>} :
              editStep(p, sess, s, t)
        \/ \E sess \in Sessions, id \in {None} \cup {Some(s) : s \in StepIds},
               body \in PutBodies :
              PUT(p, sess, id, body)
        \/ updateStep_Select(p)
        \/ updateStep_Update(p)
        \/ \E sess \in Sessions, s \in StepIds : deleteStepAction(p, sess, s)
        \/ \E sess \in Sessions, id \in {None} \cup {Some(s) : s \in StepIds} :
              DELETE(p, sess, id)
        \/ deleteStep_Select(p)
        \/ deleteStep_Delete(p)
        \/ deleteStep_Remaining(p)
        \/ deleteStep_Renumber(p)
        \/ \E sess \in Sessions, id \in {None} \cup {Some(g) : g \in GoalIds},
               c \in {None, Some("c1")}, withSteps \in BOOLEAN :
              GET(p, sess, id, c, withSteps)
        \/ GET_Goal(p)
        \/ GET_Steps(p)
        \/ GET_Chat(p)
        \/ TxCommit(p)
        \/ TxFail(p)
        \/ Return(p)

SpecApi == Init /\ [][NextApi]_vars

----------------------------------------------------------------------------
(* Properties of deleteStep *)

\* the request of p has just returned the row that deleteStep removed
Deleted(r) ==
    /\ r.pc = "done"
    /\ r.op = "deleteStep"
    /\ ~IsErr(r.l)
    /\ r.l.value # NullRow

\* C2: when a deleteStep that removed a step has committed and nothing else
\* is in flight, the orders of the n steps left in its goal are 0 .. n-1
C2_DenseAfterDelete ==
    \A p \in Procs :
        Deleted(proc[p]) =>
            OrdersOf(proc[p].l.value.goalId) =
                0 .. (Cardinality(StepsOf(proc[p].l.value.goalId)) - 1)

\* a delete has left two steps behind, renumbered
C2_Witness ==
    \E p \in Procs :
        /\ Deleted(proc[p])
        /\ Cardinality(StepsOf(proc[p].l.value.goalId)) = 2

\* C3: deleteStep keeps the relative order of the surviving steps: of two
\* steps of the goal, the one with the smaller order before the delete has
\* the smaller order after it
C3_OrderPreserved ==
    [][\A p \in Procs :
          (/\ proc[p].pc = "commit"
           /\ proc[p].op = "deleteStep"
           /\ Deleted(proc'[p]))
          => \A a, b \in DOMAIN steps' :
                (/\ steps[a].goalId = proc[p].l.goalId
                 /\ steps[b].goalId = proc[p].l.goalId
                 /\ steps[a].order < steps[b].order)
                => steps'[a].order < steps'[b].order]_vars

\* a delete about to commit below two survivors of distinct orders, with a gap
C3_Witness ==
    \E p \in Procs :
        /\ proc[p].pc = "commit"
        /\ proc[p].op = "deleteStep"
        /\ proc[p].l.result.value # NullRow
        /\ \E a, b \in DOMAIN steps \ {proc[p].arg.id} :
              /\ steps[a].goalId = proc[p].l.goalId
              /\ steps[b].goalId = proc[p].l.goalId
              /\ steps[proc[p].arg.id].order + 1 < steps[a].order
              /\ steps[a].order < steps[b].order

----------------------------------------------------------------------------
(* Properties of createGoalWithSteps *)

\* the request of p has just returned from a successful createGoalWithSteps
Ingested(r) ==
    /\ r.pc = "done"
    /\ r.op = "createGoalWithSteps"
    /\ ~IsErr(r.l)

\* C5: createGoalWithSteps is all or nothing: a step of the transaction
\* either commits the goal with every step of the plan, or leaves both tables
\* as they were, and a failure reaches the caller as one database error
C5_AllOrNothing ==
    [][\A p \in Procs :
          (/\ proc[p].pc \in {"gw_goal", "gw_steps", "commit"}
           /\ proc[p].op = "createGoalWithSteps")
          => IF Ingested(proc'[p])
             THEN LET v == proc'[p].l.value
                  IN  /\ v.goal \in (DOMAIN goals') \ (DOMAIN goals)
                      /\ Len(v.steps) = Len(proc[p].arg.steps)
                      /\ Range(v.steps) \subseteq (DOMAIN steps') \ (DOMAIN steps)
                      /\ \A s \in Range(v.steps) : steps'[s].goalId = v.goal
             ELSE /\ goals' = goals
                  /\ steps' = steps
                  /\ proc'[p].pc = "done" => proc'[p].l = Err(ErrDatabase)]_vars

\* the first ingestion failed after its goal and two steps were inserted,
\* and nothing of it is in the tables
C5_Witness ==
    \E p \in Procs :
        /\ proc[p].pc = "done"
        /\ proc[p].op = "createGoalWithSteps"
        /\ proc[p].l = Err(ErrDatabase)
        /\ goalSeq = 1
        /\ stepSeq = 2
        /\ goals = <<>>
        /\ steps = <<>>

\* C6: after a successful ingestion of a plan of k steps the goal has k
\* steps; the i-th step of the plan (0-based) has order i, or its explicit
\* order if it carries one, and is not completed
C6_IngestOrders ==
    \A p \in Procs :
        Ingested(proc[p]) =>
            LET v    == proc[p].l.value
                data == proc[p].arg.steps
            IN  /\ Len(v.steps) = Len(data)
                /\ StepsOf(v.goal) = Range(v.steps)
                /\ Cardinality(StepsOf(v.goal)) = Len(data)
                /\ \A i \in 1 .. Len(data) :
                      steps[v.steps[i]] =
                        [goalId |-> v.goal, title |-> data[i].title,
                         order |-> IF Given(data[i].order)
                                   THEN data[i].order[1] ELSE i - 1,
                         isCompleted |-> FALSE, completedAt |-> NULL,
                         createdAt |-> Created]

\* an ingested plan of three steps, the second with an explicit order
C6_Witness ==
    \E p \in Procs :
        /\ Ingested(proc[p])
        /\ Len(proc[p].arg.steps) = 3
        /\ ~Given(proc[p].arg.steps[1].order)
        /\ Given(proc[p].arg.steps[2].order)
        /\ ~Given(proc[p].arg.steps[3].order)

----------------------------------------------------------------------------
(* Properties of goal titles *)

\* C7: no goal is persisted with an empty or whitespace-only title
C7_NoBlankGoalTitle ==
    \A g \in DOMAIN goals : ~Blank(goals[g].title)

----------------------------------------------------------------------------
(* The store functions called by two requests at once *)

\* one entry of `updates` / `stepOrders`
BulkEntries(sid) ==
    {[id |-> sid, title |-> None, isCompleted |-> Some(b), order |-> None] : b \in BOOLEAN}

\* the goal and the step that the two requests contend for: the first of each
SharedGoals == {1}
SharedSteps == {1}

\* the first request runs any store function on the steps
FirstRequest(p) ==
    \/ createGoal(p, GoalArgs("c1", "u1", Ta))
    \/ \E g \in GoalIds : createStep(p, g, Ta, None)
    \/ createStep_Goal(p)
    \/ createStep_Max(p)
    \/ createStep_Insert(p)
    \/ \E g \in SharedGoals : createSteps(p, g, OneStep)
    \/ createSteps_Max(p)
    \/ createSteps_Insert(p)
    \/ createGoalWithSteps(p, GoalArgs("c1", "u1", Ta) @@ [steps |-> OneStep])
    \/ createGoalWithSteps_Goal(p)
    \/ createGoalWithSteps_Steps(p)
    \/ \E g \in SharedGoals, sid \in SharedSteps :
          reorderSteps(p, g, <<[id |-> sid, order |-> 0]>>)
    \/ reorderSteps_Select(p)
    \/ reorderSteps_Update(p)
    \/ \E sid \in SharedSteps, b \in BOOLEAN : updateStep(p, sid, None, Some(b))
    \/ updateStep_Select(p)
    \/ updateStep_Update(p)
    \/ \E sid \in SharedSteps \cup {2} : deleteStep(p, sid)
    \/ deleteStep_Select(p)
    \/ deleteStep_Delete(p)
    \/ deleteStep_Remaining(p)
    \/ deleteStep_Renumber(p)

\* both requests run toggleStepCompletion, bulkUpdateSteps and deleteGoal,
\* so that each of them meets every function of the first request
EitherRequest(p) ==
    \/ \E g \in KnownGoals : deleteGoal(p, g)
    \/ \E sid \in SharedSteps : toggleStepCompletion(p, sid)
    \/ toggleStepCompletion_Select(p)
    \/ toggleStepCompletion_Update(p)
    \/ \E g \in SharedGoals, sid \in SharedSteps : \E e \in BulkEntries(sid) :
          bulkUpdateSteps(p, g, <<e>>)
    \/ bulkUpdateSteps_Select(p)
    \/ bulkUpdateSteps_Update(p)
    \/ TxCommit(p)
    \/ TxFail(p)
    \/ Return(p)

NextConc ==
    \/ FirstRequest("p1")
    \/ \E p \in Procs : EitherRequest(p)

SpecConc == Init /\ [][NextConc]_vars

\* C1: every persisted step has completedAt set exactly when isCompleted
C1_CompletedAtIffCompleted ==
    \A s \in DOMAIN steps : (steps[s].completedAt # NULL) <=> steps[s].isCompleted

\* a toggle has completed the shared step while a bulk update that clears it
\* waits to commit
C1_Witness ==
    \E p, q \in Procs, s \in DOMAIN steps :
        /\ proc[p].pc = "done"
        /\ proc[p].op = "toggleStepCompletion"
        /\ proc[p].arg.id = s
        /\ steps[s].isCompleted
        /\ proc[q].pc = "commit"
        /\ proc[q].op = "bulkUpdateSteps"
        /\ s \in DOMAIN proc[q].l.tsteps
        /\ ~proc[q].l.tsteps[s].isCompleted

\* C4: every persisted step belongs to a goal that exists, and once
\* deleteGoal(id) has returned no step of goal id is left
C4_NoOrphans ==
    /\ \A s \in DOMAIN steps : steps[s].goalId \in DOMAIN goals
    /\ \A p \in Procs :
          (proc[p].pc = "done" /\ proc[p].op = "deleteGoal")
          => StepsOf(proc[p].arg.id) = {}

\* deleteGoal ran between the goal check and the insert of a createStep,
\* and removed steps of the goal
C4_Witness ==
    \E p, q \in Procs :
        /\ proc[q].pc = "done"
        /\ proc[q].op = "deleteGoal"
        /\ proc[q].l = Ok([id |-> proc[q].arg.id])
        /\ proc[p].pc = "done"
        /\ proc[p].op = "createStep"
        /\ proc[p].arg.goalId = proc[q].arg.id
        /\ proc[p].l = Err(ErrDatabase)
        /\ \E s \in 1 .. stepSeq : s \notin DOMAIN steps

----------------------------------------------------------------------------
(* Properties of the server actions and routes *)

\* the owner of the goal of step s
StepOwner(s) == goals[steps[s].goalId].userId

\* C8: a request of the step actions and routes made by someone who is not
\* the owner of the step's goal changes no step and is never answered with
\* {success: true}
C8_OwnerOnly ==
    [][\A p \in Procs :
          (/\ proc[p].pc \notin {"idle", "done"}
           /\ proc[p].via \in SuccessOnly
           /\ proc[p].arg.id \in DOMAIN steps
           /\ StepOwner(proc[p].arg.id) # proc[p].sess)
          => /\ steps' = steps
             /\ proc'[p].pc = "done" => proc'[p].l # Ok(Success)]_vars

\* C9: without a session every server action and route answers unauthorized
\* before its first statement
C9_UnauthorizedFirst ==
    \A p \in Procs :
        (/\ proc[p].pc # "idle"
         /\ proc[p].via \in ApiEntries \ {"GET"}
         /\ proc[p].sess = NoUser)
        => /\ proc[p].pc = "done"
           /\ proc[p].l = Err(ErrUnauthorized)

\* C9, amended: without a session every server action and route answers
\* before its first statement, with unauthorized, except that the step
\* routes answer bad_request:api when the id parameter is missing
C9_RefusedFirst ==
    \A p \in Procs :
        (/\ proc[p].pc # "idle"
         /\ proc[p].via \in ApiEntries \ {"GET"}
         /\ proc[p].sess = NoUser)
        => /\ proc[p].pc = "done"
           /\ proc[p].op = proc[p].via
           /\ proc[p].l = Err(IF proc[p].via \in {"PUT", "DELETE"} /\ ~Given(proc[p].arg.id)
                              THEN ErrApi ELSE ErrUnauthorized)

\* deleteStepAction without a session, aimed at a step that exists, has returned
C9_Witness ==
    \E p \in Procs :
        /\ proc[p].pc = "done"
        /\ proc[p].via = "deleteStepAction"
        /\ proc[p].sess = NoUser
        /\ proc[p].arg.id \in DOMAIN steps

\* C10: the id lookup of GET /api/goal answers not_found for a missing goal,
\* forbidden for a goal of another user, and the goal only for its owner
C10_GetGoalOwnerOnly ==
    \A p \in Procs :
        (/\ proc[p].pc = "done"
         /\ proc[p].via = "GET"
         /\ proc[p].sess \in Users
         /\ Given(proc[p].arg.id))
        => LET id == proc[p].arg.id[1]
           IN  IF id \notin DOMAIN goals
               THEN proc[p].l = Err(ErrNotFound)
               ELSE IF goals[id].userId # proc[p].sess
               THEN proc[p].l = Err(ErrForbidden)
               ELSE /\ ~IsErr(proc[p].l)
                    /\ proc[p].l.value.goal = goals[id]
                    /\ proc[p].l.value.goal.userId = proc[p].sess

\* a lookup with steps of another user's goal has been refused
C10_Witness ==
    \E p \in Procs :
        /\ proc[p].pc = "done"
        /\ proc[p].via = "GET"
        /\ proc[p].arg.withSteps
        /\ proc[p].l = Err(ErrForbidden)
        /\ StepsOf(proc[p].arg.id[1]) # {}

----------------------------------------------------------------------------
(* reorderSteps and deleteStep, one request at a time: the first request   *)
(* reorders, the second builds the goal and deletes steps                   *)

\* no other request is between its first statement and its answer
Quiet(p) == \A q \in Procs \ {p} : proc[q].pc \in {"idle", "done"}

\* stepOrders of two entries for two steps; both orders may be the same
ReorderLists ==
    {l \in {<<[id |-> a, order |-> x], [id |-> b, order |-> 0]>> :
                a \in StepIds, b \in StepIds, x \in {0, 1}} :
        l[1].id # l[2].id}

NextReorder ==
    \/ /\ Quiet("p1")
       /\ \E g \in SharedGoals, l \in ReorderLists : reorderSteps("p1", g, l)
    \/ reorderSteps_Select("p1")
    \/ reorderSteps_Update("p1")
    \/ /\ Quiet("p2")
       /\ \/ createGoal("p2", GoalArgs("c1", "u1", Ta))
          \/ \E g \in GoalIds : createStep("p2", g, Ta, None)
          \/ \E sid \in StepIds : deleteStep("p2", sid)
    \/ createStep_Goal("p2")
    \/ createStep_Max("p2")
    \/ createStep_Insert("p2")
    \/ deleteStep_Select("p2")
    \/ deleteStep_Delete("p2")
    \/ deleteStep_Remaining("p2")
    \/ deleteStep_Renumber("p2")
    \/ \E p \in Procs : TxCommit(p)
    \/ \E p \in Procs : TxFail(p)
    \/ \E p \in Procs : Return(p)

SpecReorder == Init /\ [][NextReorder]_vars

\* the request of p ends with this step
Ends(p) == proc[p].pc \notin {"idle", "done"} /\ proc'[p].pc = "done"

\* every entry names a step of the goal
AllBelong(a) ==
    \A i \in DOMAIN a.entries : BelongsTo(steps, a.entries[i].id, a.goalId)

\* the entry at i is the last one for its step
LastFor(entries, i) ==
    \A j \in DOMAIN entries : j > i => entries[j].id # entries[i].id

\* C11: reorderSteps whose entries all name steps of the goal fails only on
\* a storage failure and otherwise leaves every named step with the order
\* given for it, equal orders included; and a deleteStep that removes a step
\* leaves the orders of its goal's n steps as 0 .. n-1
C11_ReorderThenDelete ==
    [][\A p \in Procs :
          /\ (Ends(p) /\ proc[p].op = "reorderSteps" /\ AllBelong(proc[p].arg))
              => /\ proc'[p].l \in {Ok(NullRow), Err(ErrDatabase)}
                 /\ proc'[p].l = Ok(NullRow) =>
                       \A i \in DOMAIN proc[p].arg.entries :
                          LastFor(proc[p].arg.entries, i) =>
                             steps'[proc[p].arg.entries[i].id].order
                                = proc[p].arg.entries[i].order
          /\ (Ends(p) /\ proc[p].op = "deleteStep" /\ Deleted(proc'[p]))
              => LET left == {s \in DOMAIN steps' : steps'[s].goalId = proc[p].l.goalId}
                 IN  {steps'[s].order : s \in left} = 0 .. (Cardinality(left) - 1)]_vars

\* a reorder gave two steps of the goal the same order and succeeded; a
\* delete that came after it has left them with distinct orders
C11_Witness ==
    /\ proc["p1"].pc = "done"
    /\ proc["p1"].op = "reorderSteps"
    /\ proc["p1"].l = Ok(NullRow)
    /\ proc["p1"].arg.entries[1].id # proc["p1"].arg.entries[2].id
    /\ proc["p1"].arg.entries[1].order = proc["p1"].arg.entries[2].order
    /\ Deleted(proc["p2"])
    /\ proc["p2"].l.value.goalId = proc["p1"].arg.goalId
    /\ {proc["p1"].arg.entries[1].id, proc["p1"].arg.entries[2].id} \subseteq DOMAIN steps
    /\ steps[proc["p1"].arg.entries[1].id].order # steps[proc["p1"].arg.entries[2].id].order

\* C18: reorderSteps with an entry that names no step of the goal ends with
\* not_found (bad_request:database if the store fails first) and changes no
\* step, the steps of the entries before the offending one included
C18_ReorderAllOrNothing ==
    [][\A p \in Procs :
          (Ends(p) /\ proc[p].op = "reorderSteps" /\ ~AllBelong(proc[p].arg))
          => /\ steps' = steps
             /\ IsErr(proc'[p].l)
             /\ ~TxFail(p) => proc'[p].l = Err(ErrNotFound)]_vars

\* the first entry moved a step of the goal inside the transaction, the
\* second named a step of another goal: not_found, and the first step is
\* where it was
C18_Witness ==
    /\ proc["p1"].pc = "done"
    /\ proc["p1"].op = "reorderSteps"
    /\ proc["p1"].l = Err(ErrNotFound)
    /\ BelongsTo(steps, proc["p1"].arg.entries[1].id, proc["p1"].arg.goalId)
    /\ steps[proc["p1"].arg.entries[1].id].order # proc["p1"].arg.entries[1].order
    /\ proc["p1"].arg.entries[2].id \in DOMAIN steps
    /\ steps[proc["p1"].arg.entries[2].id].goalId # proc["p1"].arg.goalId

----------------------------------------------------------------------------
(* toggleStepCompletion, one request at a time *)

NextToggle ==
    \/ /\ Quiet("p1")
       /\ \E sid \in StepIds : toggleStepCompletion("p1", sid)
    \/ /\ Quiet("p2")
       /\ \/ createGoal("p2", GoalArgs("c1", "u1", Ta))
          \/ \E g \in SharedGoals : createStep("p2", g, Ta, None)
          \/ \E sid \in StepIds : toggleStepCompletion("p2", sid)
    \/ createStep_Goal("p2")
    \/ createStep_Max("p2")
    \/ createStep_Insert("p2")
    \/ \E p \in Procs : toggleStepCompletion_Select(p)
    \/ \E p \in Procs : toggleStepCompletion_Update(p)
    \/ \E p \in Procs : Return(p)

SpecToggle == Init /\ [][NextToggle]_vars

\* one toggle run on its own: the row after reading `row` and writing the flip
Toggled(row, now) == ToggleData(row, ~row.isCompleted, now)

\* C12: a toggle that runs on its own writes the negation of the stored
\* isCompleted, with completedAt set exactly when the new value is true, and
\* touches nothing else; two such toggles in a row restore isCompleted, and
\* bring a step that was not completed back to isCompleted = false,
\* completedAt = null
C12_ToggleTwice ==
    /\ [][\A p \in Procs :
            (Ends(p) /\ proc[p].op = "toggleStepCompletion" /\ ~IsErr(proc'[p].l))
            => LET id == proc[p].arg.id
               IN  /\ DOMAIN steps' = DOMAIN steps
                   /\ \A s \in DOMAIN steps \ {id} : steps'[s] = steps[s]
                   /\ steps'[id].isCompleted = ~steps[id].isCompleted
                   /\ (steps'[id].completedAt # NULL) <=> steps'[id].isCompleted
                   /\ steps'[id].title = steps[id].title
                   /\ steps'[id].order = steps[id].order
                   /\ steps'[id].goalId = steps[id].goalId]_vars
    /\ [](\A s \in DOMAIN steps : \A t, u \in Times :
            LET twice == Toggled(Toggled(steps[s], t), u)
            IN  /\ twice.isCompleted = steps[s].isCompleted
                /\ ~steps[s].isCompleted => twice = steps[s])

\* both requests have toggled the same step, one after the other, and the
\* step is not completed
C12_Witness ==
    /\ proc["p1"].pc = "done"
    /\ proc["p1"].op = "toggleStepCompletion"
    /\ proc["p1"].l = Ok(Updated)
    /\ proc["p2"].pc = "done"
    /\ proc["p2"].op = "toggleStepCompletion"
    /\ proc["p2"].l = Ok(Updated)
    /\ proc["p1"].arg.id = proc["p2"].arg.id
    /\ proc["p1"].arg.id \in DOMAIN steps
    /\ ~steps[proc["p1"].arg.id].isCompleted
    /\ steps[proc["p1"].arg.id].completedAt = NULL

----------------------------------------------------------------------------
(* getGoalProgress, queries.ts 1202-1221                                    *)
(*                                                                          *)
(* `(completed / total) * 100` is computed in IEEE 754 binary64: each of    *)
(* the two operations rounds its exact result to 53 significant bits, ties  *)
(* to even.  A positive number is [m, e]: the 53 bits m, most significant   *)
(* first and m[1] = 1, and the exponent e of m[1].                          *)

\* significant bits of a binary64 number
Precision == 53

\* the least shift of c that reaches t, for 1 <= c <= t
RECURSIVE Lead(_, _, _)
Lead(c, t, k) == IF c >= t THEN [v |-> c, k |-> k] ELSE Lead(2 * c, t, k + 1)

\* 2^i modulo t, by repeated squaring
RECURSIVE PowMod(_, _)
PowMod(i, t) ==
    IF i = 0 THEN 1 % t
    ELSE LET h == PowMod(i \div 2, t)
         IN  (h * h * (IF i % 2 = 1 THEN 2 ELSE 1)) % t

\* n bits of the quotient by long division, most significant first, for
\* t <= v < 2 * t; rem is the remainder left after them, doubled
DivBits(v, t, n) ==
    LET Rem(i) == ((v % t) * PowMod(i - 1, t)) % t
    IN  [bits |-> [i \in 1 .. n |-> IF i = 1 THEN v \div t
                                    ELSE (2 * Rem(i - 1)) \div t],
         rem  |-> 2 * Rem(n)]

\* bits + 1, most significant first: the bits below which all are 1 flip
Inc(bits) ==
    LET n       == Len(bits)
        Ones(i) == \A j \in i .. n : bits[j] = 1
    IN  [bits  |-> [i \in 1 .. n |-> IF Ones(i + 1) THEN 1 - bits[i] ELSE bits[i]],
         carry |-> IF Ones(1) THEN 1 ELSE 0]

\* round to nearest, ties to even: `above` compares the part cut off with
\* half a unit of the last bit kept (-1 below, 0 equal, 1 above)
RoundNearestEven(m, e, above) ==
    IF above = 1 \/ (above = 0 /\ m[Len(m)] = 1)
    THEN LET up == Inc(m)
         IN  IF up.carry = 1
             THEN [m |-> <<1>> \o SubSeq(up.bits, 1, Len(m) - 1), e |-> e + 1]
             ELSE [m |-> up.bits, e |-> e]
    ELSE [m |-> m, e |-> e]

\* completed / total for 1 <= c <= t
FDiv(c, t) ==
    LET lead == Lead(c, t, 0)
        q    == DivBits(lead.v, t, Precision)
    IN  RoundNearestEven(q.bits, -lead.k,
                         IF q.rem > t THEN 1 ELSE IF q.rem = t THEN 0 ELSE -1)

\* the number with the given bits, most significant first
RECURSIVE BitsValue(_)
BitsValue(bits) ==
    IF bits = <<>> THEN 0
    ELSE IF Len(bits) = 1 THEN bits[1]
    ELSE LET h == Len(bits) \div 2
         IN  BitsValue(SubSeq(bits, 1, h)) * 2 ^ (Len(bits) - h)
                 + BitsValue(SubSeq(bits, h + 1, Len(bits)))

\* the width of the pieces a significand is multiplied in
Limb == 20

\* x * 100: the significand in three pieces, each times 100 with the carry
\* of the piece below, then rounded back to Precision bits
FTimes100(x) ==
    LET B       == 2 ^ Limb
        p0      == 100 * BitsValue(SubSeq(x.m, Precision - Limb + 1, Precision))
        p1      == 100 * BitsValue(SubSeq(x.m, Precision - 2 * Limb + 1,
                                          Precision - Limb)) + p0 \div B
        p2      == 100 * BitsValue(SubSeq(x.m, 1, Precision - 2 * Limb)) + p1 \div B
        limbs   == <<p0 % B, p1 % B, p2>>
        L       == 2 * Limb + (IF p2 >= 2 ^ (Limb - 1) THEN Limb ELSE Limb - 1)
        Bit(k)  == (limbs[k \div Limb + 1] \div 2 ^ (k % Limb)) % 2
        product == [i \in 1 .. L |-> Bit(L - i)]
        rest    == IF product[Precision + 1] = 0 THEN -1
                   ELSE IF \E i \in Precision + 2 .. L : product[i] = 1 THEN 1 ELSE 0
    IN  RoundNearestEven(SubSeq(product, 1, Precision), x.e + (L - Precision), rest)

\* Math.round: the nearest integer, halves upwards
MathRound(y) ==
    IF y.e < -1 THEN 0
    ELSE IF y.e = -1 THEN 1
    ELSE BitsValue(SubSeq(y.m, 1, y.e + 1)) + y.m[y.e + 2]

\* 1208
Percentage(completed, total) ==
    IF total > 0
    THEN IF completed = 0 THEN 0 ELSE MathRound(FTimes100(FDiv(completed, total)))
    ELSE 0

getGoalProgress(p, goalId) ==
    /\ proc[p].pc = "idle"
    /\ proc' = [proc EXCEPT ![p] =
            Frame("store", NoUser, "getGoalProgress", [goalId |-> goalId],
                  "gp_select", <<>>)]
    /\ UNCHANGED <<goals, steps, goalSeq, stepSeq, messages, button>>

\* 1204-1214: getStepsByGoalId, then the counts
getGoalProgress_Select(p) ==
    /\ proc[p].pc = "gp_select"
    /\ LET rows      == StepsOf(proc[p].arg.goalId)
           total     == Cardinality(rows)
           completed == Cardinality({s \in rows : steps[s].isCompleted})
       IN  proc' = [proc EXCEPT ![p] =
                Done(p, Ok([completed |-> completed, total |-> total,
                            percentage |-> Percentage(completed, total)]))]
    /\ UNCHANGED <<goals, steps, goalSeq, stepSeq, messages, button>>

\* the most steps of a goal whose progress is read
MaxTotal == 40

\* a goal with `total` steps of which the first `completed` are completed
InitProgress ==
    \E total \in 0 .. MaxTotal : \E completed \in 0 .. total :
        /\ goals = (1 :> NewGoal(GoalArgs("c1", "u1", Ta)))
        /\ steps = [s \in 1 .. total |->
                        IF s <= completed
                        THEN [NewStep(1, Ta, s - 1) EXCEPT
                                 !.isCompleted = TRUE, !.completedAt = "t1"]
                        ELSE NewStep(1, Ta, s - 1)]
        /\ goalSeq = 1
        /\ stepSeq = total
        /\ proc = [p \in Procs |-> Idle]
        /\ messages = Messages
        /\ button = Unclicked

NextProgress ==
    \E p \in {"p1"} :
        \/ \E g \in SharedGoals : getGoalProgress(p, g)
        \/ getGoalProgress_Select(p)
        \/ Return(p)

SpecProgress == InitProgress /\ [][NextProgress]_vars

\* round(a / b), halves upwards, in whole numbers
RoundHalfUp(a, b) == (2 * a + b) \div (2 * b)

\* C13: getGoalProgress answers total = the number of steps of the goal,
\* completed = the number of them with isCompleted, and percentage =
\* round(100 * completed / total), halves upwards, or 0 without steps
C13_Progress ==
    \A p \in Procs :
        (proc[p].pc = "done" /\ proc[p].op = "getGoalProgress")
        => LET rows      == StepsOf(proc[p].arg.goalId)
               total     == Cardinality(rows)
               completed == Cardinality({s \in rows : steps[s].isCompleted})
           IN  proc[p].l =
                 Ok([completed |-> completed, total |-> total,
                     percentage |-> IF total = 0 THEN 0
                                    ELSE RoundHalfUp(100 * completed, total)])

----------------------------------------------------------------------------
(* createStep, one request at a time *)

\* the order columns of the goal's steps other than `id`
OtherOrders(g, id) == {steps[s].order : s \in StepsOf(g) \ {id}}

\* C14: a step made by createStep has the order supplied, or with the order
\* omitted one more than the greatest order among the goal's other steps
\* (0 if it has none), and is not completed, with completedAt null
C14_CreateStepOrder ==
    \A p \in Procs :
        (proc[p].pc = "done" /\ proc[p].op = "createStep" /\ ~IsErr(proc[p].l))
        => LET id     == proc[p].l.value.id
               g      == proc[p].arg.goalId
               others == OtherOrders(g, id)
           IN  /\ id \in DOMAIN steps
               /\ steps[id].goalId = g
               /\ steps[id].title = proc[p].arg.title
               /\ steps[id].order =
                    IF Given(proc[p].arg.order) THEN proc[p].arg.order[1]
                    ELSE IF others = {} THEN 0
                    ELSE (CHOOSE m \in others : \A o \in others : o <= m) + 1
               /\ steps[id].isCompleted = FALSE
               /\ steps[id].completedAt = NULL

\* a step made without an order in a goal whose orders have a gap
C14_Witness ==
    \E p \in Procs :
        /\ proc[p].pc = "done" /\ proc[p].op = "createStep" /\ ~IsErr(proc[p].l)
        /\ ~Given(proc[p].arg.order)
        /\ LET id == proc[p].l.value.id
           IN  /\ steps[id].order = 3
               /\ Cardinality(StepsOf(proc[p].arg.goalId)) = 2

----------------------------------------------------------------------------
(* createStep and createSteps, one request at a time *)

\* stepsData with and without explicit orders
BatchSteps == {[title |-> Ta, order |-> o] : o \in {None, Some(0), Some(5)}}

BatchLists == SeqsUpTo(BatchSteps, MaxSteps)

NextBatch ==
    \E p \in {"p1"} :
        \/ createGoal(p, GoalArgs("c1", "u1", Ta))
        \/ \E g \in GoalIds, o \in OrderInputs : createStep(p, g, Ta, o)
        \/ createStep_Goal(p)
        \/ createStep_Max(p)
        \/ createStep_Insert(p)
        \/ \E g \in GoalIds, l \in BatchLists : createSteps(p, g, l)
        \/ createSteps_Max(p)
        \/ createSteps_Insert(p)
        \/ Return(p)

SpecBatch == Init /\ [][NextBatch]_vars

\* the entries of `data` before the i-th that carry no order
OmittedBefore(data, i) == {j \in 1 .. i - 1 : ~Given(data[j].order)}

\* C15: createSteps adds one step per entry, in array order; an entry with
\* an order keeps it, and the k-th entry without one gets m + k, where m is
\* the greatest order among the goal's steps before the call (-1 if none)
C15_CreateManyOrders ==
    [][\A p \in Procs :
          (Ends(p) /\ proc[p].op = "createSteps" /\ ~IsErr(proc'[p].l)
             /\ proc[p].arg.steps # <<>>)
          => LET data   == proc[p].arg.steps
                 g      == proc[p].arg.goalId
                 before == {steps[s].order : s \in {t \in DOMAIN steps : steps[t].goalId = g}}
                 m      == IF before = {} THEN -1
                           ELSE CHOOSE x \in before : \A o \in before : o <= x
             IN  /\ DOMAIN steps' = DOMAIN steps \cup (stepSeq + 1 .. stepSeq + Len(data))
                 /\ \A s \in DOMAIN steps : steps'[s] = steps[s]
                 /\ \A i \in 1 .. Len(data) :
                       /\ steps'[stepSeq + i].goalId = g
                       /\ steps'[stepSeq + i].title = data[i].title
                       /\ steps'[stepSeq + i].order =
                            IF Given(data[i].order) THEN data[i].order[1]
                            ELSE m + 1 + Cardinality(OmittedBefore(data, i))]_vars

\* a goal with a step of order 2 got two more by one createSteps: the first
\* with the explicit order 0, the second without an order
C15_Witness ==
    \E p \in Procs :
        /\ proc[p].pc = "done" /\ proc[p].op = "createSteps" /\ ~IsErr(proc[p].l)
        /\ Len(proc[p].arg.steps) = 2
        /\ proc[p].arg.steps[1].order = Some(0)
        /\ proc[p].arg.steps[2].order = None
        /\ stepSeq = 3
        /\ steps[1].goalId = proc[p].arg.goalId /\ steps[1].order = 2
        /\ steps[2].order = 0
        /\ steps[3].order = 3

\* C16: createStep and createSteps called with a goalId that matches no
\* goal end in a not-found error, and no step is inserted
C16_MissingGoal ==
    [][\A p \in Procs :
          (Ends(p) /\ proc[p].op \in {"createStep", "createSteps"}
             /\ proc[p].arg.goalId \notin DOMAIN goals)
          => /\ proc'[p].l = Err(ErrNotFound)
             /\ steps' = steps]_vars

----------------------------------------------------------------------------
(* Step titles: every function that writes one, one request at a time *)

\* `title?` and `isCompleted?` of updateStep and of a bulkUpdateSteps entry
TitleChanges == {None} \cup {Some(t) : t \in TitleInputs}
CompletedChanges == {None, Some(TRUE)}

NextTitle ==
    \E p \in {"p1"} :
        \/ createGoal(p, GoalArgs("c1", "u1", Ta))
        \/ \E g \in SharedGoals, t \in TitleInputs : createStep(p, g, t, None)
        \/ createStep_Goal(p)
        \/ createStep_Max(p)
        \/ createStep_Insert(p)
        \/ \E g \in SharedGoals, t \in TitleInputs :
              createSteps(p, g, <<[title |-> t, order |-> None]>>)
        \/ createSteps_Max(p)
        \/ createSteps_Insert(p)
        \/ \E t \in TitleInputs :
              createGoalFromPlan(p, "u1", "c1", "m1", Ta, None,
                                 <<[title |-> t, order |-> None]>>)
        \/ createGoalWithSteps_Goal(p)
        \/ createGoalWithSteps_Steps(p)
        \/ \E s \in SharedSteps, t \in TitleChanges, c \in CompletedChanges :
              updateStep(p, s, t, c)
        \/ updateStep_Select(p)
        \/ updateStep_Update(p)
        \/ \E g \in SharedGoals, s \in SharedSteps, t \in TitleChanges,
              c \in CompletedChanges :
              bulkUpdateSteps(p, g, <<[id |-> s, title |-> t, isCompleted |-> c,
                                       order |-> None]>>)
        \/ bulkUpdateSteps_Select(p)
        \/ bulkUpdateSteps_Update(p)
        \/ TxCommit(p)
        \/ TxFail(p)
        \/ Return(p)

SpecTitle == Init /\ [][NextTitle]_vars

\* C17: no step is stored with an empty or whitespace-only title
C17_NoBlankStepTitle ==
    \A s \in DOMAIN steps : ~Blank(steps[s].title)

\* C20: bulkUpdateSteps with the single entry {id, title?, isCompleted?} on a
\* step of the goal ends as updateStep(id, title?, isCompleted?) does: a blank
\* title is a validation error and nothing is written, otherwise the call
\* succeeds and the step's row is the one updateStep writes
C20_BulkAsUpdate ==
    [][\A p \in Procs :
          (Ends(p) /\ ~TxFail(p) /\ proc[p].op = "bulkUpdateSteps"
             /\ Len(proc[p].arg.entries) = 1
             /\ BelongsTo(steps, proc[p].arg.entries[1].id, proc[p].arg.goalId))
          => LET u == proc[p].arg.entries[1]
             IN  IF Given(u.title) /\ Blank(u.title[1])
                 THEN proc'[p].l = Err(ErrValidation) /\ steps' = steps
                 ELSE IF ~Given(u.title) /\ ~Given(u.isCompleted)
                 THEN steps' = steps
                 ELSE /\ ~IsErr(proc'[p].l)
                      /\ \E now \in Times :
                            steps' = [steps EXCEPT ![u.id] =
                                        UpdateData(@, u.title, u.isCompleted, now)]]_vars

----------------------------------------------------------------------------
(* bulkUpdateSteps with several entries, one request at a time *)

Tb == <<"b">>

\* one entry of `updates`: every column of the step, or isCompleted alone
BulkChanges(sid) ==
    {[id |-> sid, title |-> Some(Tb), isCompleted |-> Some(TRUE), order |-> Some(5)],
     [id |-> sid, title |-> None, isCompleted |-> Some(TRUE), order |-> None]}

\* `updates` of two entries, the first for the first step
BulkLists ==
    {<<a, b>> : a \in UNION {BulkChanges(s) : s \in SharedSteps},
                b \in UNION {BulkChanges(s) : s \in StepIds}}

NextBulk ==
    \E p \in {"p1"} :
        \/ createGoal(p, GoalArgs("c1", "u1", Ta))
        \/ \E g \in GoalIds : createStep(p, g, Ta, None)
        \/ createStep_Goal(p)
        \/ createStep_Max(p)
        \/ createStep_Insert(p)
        \/ \E g \in SharedGoals, l \in BulkLists : bulkUpdateSteps(p, g, l)
        \/ bulkUpdateSteps_Select(p)
        \/ bulkUpdateSteps_Update(p)
        \/ TxCommit(p)
        \/ TxFail(p)
        \/ Return(p)

SpecBulk == Init /\ [][NextBulk]_vars

----------------------------------------------------------------------------
(* updateGoal on a goal whose fields are not the defaults, one request at a *)
(* time                                                                     *)

\* a goal made with every optional field given
FullGoal ==
    [chatId |-> "c1", userId |-> "u1", title |-> Ta,
     description |-> Some("d1"), status |-> Some("in_progress"),
     priority |-> Some("high"), deadline |-> Some("t1"),
     createdFromMessageId |-> None]

\* the arguments of updateGoal: each field omitted, valid, or (title, status,
\* priority) invalid
GoalUpdates(g) ==
    {[id |-> g, title |-> t, description |-> d, status |-> st, priority |-> pr,
      deadline |-> dl] :
        t  \in {None, Some(<<"b">>), Some(<<" ">>)},
        d  \in {None, Some(NULL)},
        st \in {None, Some("completed"), Some("done")},
        pr \in {None, Some("low"), Some("urgent")},
        dl \in {None, Some(NULL)}}

NextGoalUpdate ==
    \E p \in {"p1"} :
        \/ createGoal(p, FullGoal)
        \/ \E g \in SharedGoals : \E a \in GoalUpdates(g) : updateGoal(p, a)
        \/ updateGoal_Select(p)
        \/ updateGoal_Update(p)
        \/ Return(p)

SpecGoalUpdate == Init /\ [][NextGoalUpdate]_vars

GoalFields == {"title", "description", "status", "priority", "deadline"}

\* C21: updateGoal of a goal that does not exist ends in not-found, and with
\* a blank title or an unknown status or priority in a validation error,
\* both without a write; otherwise each field given takes the value given,
\* and every field omitted, like every other goal, stays as it was
C21_PartialUpdate ==
    [][\A p \in Procs :
          (Ends(p) /\ proc[p].op = "updateGoal")
          => LET a == proc[p].arg
             IN  IF a.id \notin DOMAIN goals
                 THEN proc'[p].l = Err(ErrNotFound) /\ goals' = goals
                 ELSE IF \/ a.title # None /\ Trim(a.title[1]) = <<>>
                         \/ a.status # None
                              /\ a.status[1] \notin {"not_started", "in_progress", "completed"}
                         \/ a.priority # None
                              /\ a.priority[1] \notin {"low", "medium", "high"}
                 THEN proc'[p].l = Err(ErrValidation) /\ goals' = goals
                 ELSE /\ DOMAIN goals' = DOMAIN goals
                      /\ \A g \in DOMAIN goals \ {a.id} : goals'[g] = goals[g]
                      /\ \A f \in GoalFields :
                            goals'[a.id][f] = IF a[f] # None THEN a[f][1]
                                              ELSE goals[a.id][f]
                      /\ \A f \in {"chatId", "userId", "createdFromMessageId"} :
                            goals'[a.id][f] = goals[a.id][f]]_vars

\* an update that gave only the status: the goal keeps the title, the
\* description, the priority and the deadline it was made with
C21_Witness ==
    \E p \in Procs :
        /\ proc[p].pc = "done" /\ proc[p].op = "updateGoal" /\ ~IsErr(proc[p].l)
        /\ LET a == proc[p].arg
           IN  /\ a.status = Some("completed")
               /\ \A f \in GoalFields \ {"status"} : a[f] = None
               /\ goals[a.id].status = "completed"
               /\ goals[a.id].description = "d1"
               /\ goals[a.id].priority = "high"
               /\ goals[a.id].deadline = "t1"
               /\ goals[a.id].title = Ta

----------------------------------------------------------------------------
(* createGoalFromPlan, one request at a time *)

\* the chats a plan may name: of the caller, of another user, of nobody
PlanChats == DOMAIN ChatOwner \cup {"c3"}

NextPlan ==
    \E p \in {"p1"} :
        \/ \E sess \in Sessions, c \in PlanChats, t \in TitleInputs,
              l \in {<<>>, OneStep} :
              createGoalFromPlan(p, sess, c, "m1", t, None, l)
        \/ createGoalWithSteps_Goal(p)
        \/ createGoalWithSteps_Steps(p)
        \/ TxCommit(p)
        \/ TxFail(p)
        \/ Return(p)

SpecPlan == Init /\ [][NextPlan]_vars

\* C22: createGoalFromPlan answers not_found:chat for a chat that does not
\* exist, forbidden:chat for a chat of another user and bad_request:goal for
\* a blank goal title or an empty step list, at once and without a write; a
\* plan goes on to the store only when none of these holds, so every goal
\* stored is of its chat's owner, has a title and has steps
C22_PlanChecksFirst ==
    /\ [][\A p \in Procs :
            (proc[p].pc = "idle" /\ proc'[p].pc # "idle"
               /\ proc'[p].via = "createGoalFromPlan" /\ proc'[p].sess # NoUser)
            => LET f == proc'[p]
               IN  IF f.pc = "done"
                   THEN /\ goals' = goals /\ steps' = steps
                        /\ f.l = Err(IF f.arg.chatId \notin {"c1", "c2"}
                                     THEN ErrChatMissing
                                     ELSE IF ChatOwner[f.arg.chatId] # f.sess
                                     THEN ErrChatForeign
                                     ELSE ErrValidation)
                        /\ (f.l = Err(ErrValidation))
                             => (Trim(f.arg.goalTitle) = <<>> \/ f.arg.steps = <<>>)
                   ELSE /\ f.arg.chatId \in {"c1", "c2"}
                        /\ ChatOwner[f.arg.chatId] = f.sess
                        /\ f.arg.title # <<>>
                        /\ f.arg.steps # <<>>]_vars
    /\ [](\A g \in DOMAIN goals :
            /\ goals[g].chatId \in {"c1", "c2"}
            /\ ChatOwner[goals[g].chatId] = goals[g].userId
            /\ Trim(goals[g].title) # <<>>
            /\ \E s \in DOMAIN steps : steps[s].goalId = g)

\* after a plan of u1 was stored, a plan of u1 for the chat of u2 is refused
C22_Witness ==
    \E p \in Procs :
        /\ proc[p].pc = "done" /\ proc[p].op = "createGoalFromPlan"
        /\ proc[p].sess = "u1" /\ proc[p].arg.chatId = "c2"
        /\ proc[p].arg.goalTitle = Ta /\ proc[p].arg.steps # <<>>
        /\ proc[p].l = Err(ErrChatForeign)
        /\ DOMAIN goals = {1}

----------------------------------------------------------------------------
(* getStepsByGoalId, queries.ts 893-906, while deleteStep runs *)

getStepsByGoalId(p, goalId) ==
    /\ proc[p].pc = "idle"
    /\ proc' = [proc EXCEPT ![p] =
            Frame("store", NoUser, "getStepsByGoalId", [goalId |-> goalId],
                  "gs_select", <<>>)]
    /\ UNCHANGED <<goals, steps, goalSeq, stepSeq, messages, button>>

\* 895-899: one SELECT, over the committed rows
getStepsByGoalId_Select(p) ==
    /\ proc[p].pc = "gs_select"
    /\ \E listing \in SortedByOrder(StepView(p), proc[p].arg.goalId) :
          proc' = [proc EXCEPT ![p] =
             Done(p, Ok([i \in DOMAIN listing |->
                            [id |-> listing[i], order |-> steps[listing[i]].order]]))]
    /\ UNCHANGED <<goals, steps, goalSeq, stepSeq, messages, button>>

\* the first request creates steps without an order and deletes them; the
\* second lists the goal's steps while a transaction of the first is open
NextObserve ==
    \/ createGoal("p1", GoalArgs("c1", "u1", Ta))
    \/ \E g \in SharedGoals : createStep("p1", g, Ta, None)
    \/ createStep_Goal("p1")
    \/ createStep_Max("p1")
    \/ createStep_Insert("p1")
    \/ \E s \in StepIds : deleteStep("p1", s)
    \/ deleteStep_Select("p1")
    \/ deleteStep_Delete("p1")
    \/ deleteStep_Remaining("p1")
    \/ deleteStep_Renumber("p1")
    \/ TxCommit("p1")
    \/ TxFail("p1")
    \/ /\ InTx("p1")
       /\ \E g \in SharedGoals : getStepsByGoalId("p2", g)
    \/ getStepsByGoalId_Select("p2")
    \/ \E p \in Procs : Return(p)

SpecObserve == Init /\ [][NextObserve]_vars

\* C23: a listing of a goal's steps taken while deleteStep runs is a whole
\* committed list, the one before the delete or the one after it: its orders
\* are 0, 1, ... without a gap, its steps are those stored at that moment,
\* and the step of a delete that is not yet committed is still in it
C23_NoGapObserved ==
    [][\A p \in Procs :
          (Ends(p) /\ proc[p].op = "getStepsByGoalId")
          => LET rows == proc'[p].l.value
                 g    == proc[p].arg.goalId
             IN  /\ ~IsErr(proc'[p].l)
                 /\ \A i \in DOMAIN rows : rows[i].order = i - 1
                 /\ {rows[i].id : i \in DOMAIN rows}
                      = {s \in DOMAIN steps : steps[s].goalId = g}
                 /\ \A q \in Procs \ {p} :
                       (InTx(q) /\ proc[q].op = "deleteStep"
                          /\ proc[q].arg.id \in DOMAIN steps
                          /\ steps[proc[q].arg.id].goalId = g)
                       => \E i \in DOMAIN rows : rows[i].id = proc[q].arg.id]_vars

\* the listing came back whole, with the three steps and the orders 0, 1, 2,
\* while the delete of one of them had already renumbered a sibling in its
\* open transaction
C23_Witness ==
    /\ proc["p1"].pc = "ds_renumber" /\ proc["p1"].l.i > 1
    /\ proc["p1"].l.goalId = 1
    /\ proc["p2"].pc = "done" /\ proc["p2"].op = "getStepsByGoalId"
    /\ ~IsErr(proc["p2"].l)
    /\ Len(proc["p2"].l.value) = 3
    /\ proc["p2"].l.value[3].order = 2
    /\ proc["p2"].arg.goalId = 1

----------------------------------------------------------------------------
(* deleteStep: a failure of the store after the DELETE *)

\* C24: when deleteStep fails after its DELETE, during the renumbering of
\* the siblings, the caller gets the storage error and the stored steps are
\* as before the call: the step is there and every sibling has its order
C24_DeleteRolledBack ==
    [][\A p \in Procs :
          (proc[p].pc \in {"ds_remaining", "ds_renumber"} /\ proc'[p].pc = "done"
             /\ IsErr(proc'[p].l))
          => /\ proc'[p].l = Err(ErrDatabase)
             /\ proc[p].arg.id \in DOMAIN steps'
             /\ steps' = steps]_vars

\* the delete of the first of three steps ended in the storage error: the
\* three steps are stored with the orders 0, 1, 2
C24_Witness ==
    \E p \in Procs :
        /\ proc[p].pc = "done" /\ proc[p].op = "deleteStep"
        /\ proc[p].l = Err(ErrDatabase)
        /\ proc[p].arg.id = 1
        /\ DOMAIN steps = {1, 2, 3}
        /\ \A s \in DOMAIN steps : steps[s].goalId = 1 /\ steps[s].order = s - 1

----------------------------------------------------------------------------
(* createStep and createSteps without an order, two requests at a time *)

NextCreate ==
    \/ createGoal("p1", GoalArgs("c1", "u1", Ta))
    \/ \E p \in Procs :
          \/ \E g \in SharedGoals : createStep(p, g, Ta, None)
          \/ createStep_Goal(p)
          \/ createStep_Max(p)
          \/ createStep_Insert(p)
          \/ \E g \in SharedGoals : createSteps(p, g, OneStep)
          \/ createSteps_Max(p)
          \/ createSteps_Insert(p)
          \/ Return(p)

SpecCreate == Init /\ [][NextCreate]_vars

\* C25: no two steps of a goal share an order, when steps are only made by
\* createStep and createSteps with the order omitted
C25_UniqueOrders ==
    \A s, t \in DOMAIN steps :
        (s # t /\ steps[s].goalId = steps[t].goalId) => steps[s].order # steps[t].order

----------------------------------------------------------------------------
(* deleteStep, two requests at a time *)

\* the first request sets the goal up on its own; the second starts a delete
\* only while a delete of the first is open
NextDelete ==
    \/ /\ Quiet("p1")
       /\ \/ createGoal("p1", GoalArgs("c1", "u1", Ta))
          \/ \E g \in SharedGoals : createStep("p1", g, Ta, None)
    \/ createStep_Goal("p1")
    \/ createStep_Max("p1")
    \/ createStep_Insert("p1")
    \/ /\ proc["p2"].pc = "idle"
       /\ \E s \in StepIds : deleteStep("p1", s)
    \/ /\ InTx("p1")
       /\ \E s \in StepIds \ {proc["p1"].arg.id} : deleteStep("p2", s)
    \/ \E p \in Procs :
          \/ deleteStep_Select(p)
          \/ deleteStep_Delete(p)
          \/ deleteStep_Remaining(p)
          \/ deleteStep_Renumber(p)
          \/ TxCommit(p)
          \/ TxFail(p)
          \/ Return(p)

SpecDelete == Init /\ [][NextDelete]_vars

\* a deleteStep that found its step and committed
Deleted2(p) ==
    /\ proc[p].pc = "done" /\ proc[p].op = "deleteStep"
    /\ ~IsErr(proc[p].l) /\ proc[p].l.value # NullRow

\* C26: once two deleteStep calls that ran at the same time on two steps of
\* one goal have both committed, the orders of the goal's n remaining steps
\* are exactly 0 .. n-1
C26_DenseAfterTwoDeletes ==
    (/\ Deleted2("p1") /\ Deleted2("p2")
     /\ proc["p1"].arg.id # proc["p2"].arg.id
     /\ proc["p1"].l.value.goalId = proc["p2"].l.value.goalId)
    => LET rest == {s \in DOMAIN steps : steps[s].goalId = proc["p1"].l.value.goalId}
       IN  /\ proc["p1"].arg.id \notin rest /\ proc["p2"].arg.id \notin rest
           /\ {steps[s].order : s \in rest} = 0 .. (Cardinality(rest) - 1)

\* both deletes of two of the goal's three steps have committed, and the
\* step that is left has order 0
C26_Witness ==
    /\ Deleted2("p1") /\ Deleted2("p2")
    /\ proc["p1"].arg.id # proc["p2"].arg.id
    /\ proc["p1"].l.value.goalId = 1 /\ proc["p2"].l.value.goalId = 1
    /\ stepSeq = 3
    /\ Cardinality(DOMAIN steps) = 1
    /\ \A s \in DOMAIN steps : steps[s].order = 0

----------------------------------------------------------------------------
(* toggleStepCompletion and updateStep on one step, two requests at a time *)

\* the first request makes the goal and its steps on its own; then each
\* request makes one call on the first step: a toggle, or for the first an
\* update as well
NextRace ==
    \/ /\ Quiet("p1")
       /\ \/ createGoal("p1", GoalArgs("c1", "u1", Ta))
          \/ \E g \in SharedGoals : createStep("p1", g, Ta, None)
    \/ createStep_Goal("p1")
    \/ createStep_Max("p1")
    \/ createStep_Insert("p1")
    \/ \E s \in SharedSteps, t \in {None, Some(<<"b">>)},
          c \in {None, Some(TRUE), Some(FALSE)} : updateStep("p1", s, t, c)
    \/ updateStep_Select("p1")
    \/ updateStep_Update("p1")
    \/ \E p \in Procs :
          \/ \E s \in SharedSteps : toggleStepCompletion(p, s)
          \/ toggleStepCompletion_Select(p)
          \/ toggleStepCompletion_Update(p)
          \/ /\ proc[p].pc = "done"
             /\ proc[p].op \notin {"toggleStepCompletion", "updateStep"}
             /\ Return(p)

SpecRace == Init /\ [][NextRace]_vars

\* the (isCompleted, completedAt) pair of a row is the one a call writes
\* for the value v
PairOf(row, v) ==
    /\ row.isCompleted = v
    /\ IF v THEN row.completedAt \in {"t1", "t2"} ELSE row.completedAt = NULL

\* C27: every write of toggleStepCompletion and of updateStep sets
\* isCompleted and completedAt of the step together, from that call's value
\* alone (the negation of what the toggle read; the isCompleted given to the
\* update), or leaves both when the update gives no isCompleted: the step
\* always shows the pair of the last write, and a toggle that read the value
\* before another wrote repeats that write's negation
C27_LastWriteWins ==
    [][\A p \in Procs :
          LET id == proc[p].arg.id
          IN  /\ (proc[p].pc = "ts_update" /\ proc'[p].pc = "done"
                    /\ id \in DOMAIN steps)
                 => /\ PairOf(steps'[id], proc[p].l.newCompletedState)
                    /\ steps'[id].title = steps[id].title
                    /\ steps'[id].order = steps[id].order
                    /\ \A s \in DOMAIN steps \ {id} : steps'[s] = steps[s]
              /\ (proc[p].pc = "us_update" /\ proc'[p].pc = "done"
                    /\ id \in DOMAIN steps)
                 => /\ IF proc[p].arg.isCompleted # None
                       THEN PairOf(steps'[id], proc[p].arg.isCompleted[1])
                       ELSE /\ steps'[id].isCompleted = steps[id].isCompleted
                            /\ steps'[id].completedAt = steps[id].completedAt
                    /\ \A s \in DOMAIN steps \ {id} : steps'[s] = steps[s]]_vars

\* the lost flip: both requests have toggled the step, which was made not
\* completed, and it is completed
C27_Witness ==
    /\ \A p \in Procs :
          /\ proc[p].pc = "done" /\ proc[p].op = "toggleStepCompletion"
          /\ proc[p].arg.id = 1 /\ ~IsErr(proc[p].l)
    /\ steps[1].isCompleted /\ steps[1].completedAt = "t2"

----------------------------------------------------------------------------
(* extractPlanFromText of PlanActionButton: the two versions of
   components/plan-action-button.tsx, part_003 and part_004. A text is a
   sequence of characters; each regular expression is computed as the
   backtracking matcher computes it. *)

Least(S) == CHOOSE x \in S : \A y \in S : x <= y

\* String.prototype.toLowerCase, over the letters the texts are written in
Lower(c) ==
    CASE c = "A" -> "a" [] c = "D" -> "d" [] c = "F" -> "f" [] c = "G" -> "g"
      [] c = "J" -> "j" [] c = "N" -> "n" [] c = "O" -> "o" [] c = "R" -> "r"
      [] c = "S" -> "s" [] c = "U" -> "u" [] c = "W" -> "w"
      [] OTHER -> c

toLowerCase(s) == [i \in 1 .. Len(s) |-> Lower(s[i])]

\* \d
IsDigit(c) == c \in {"0", "1", "2", "3", "4", "5", "6", "7", "8", "9"}

\* the literal w, whatever the case of its letters (flag i), at index i of t
MatchesAt(t, i, w) ==
    /\ i >= 1
    /\ i + Len(w) - 1 <= Len(t)
    /\ \A k \in 1 .. Len(w) : Lower(t[i + k - 1]) = Lower(w[k])

\* (?:\*\*)? at index i: the index after it
AfterStars(t, i) == IF MatchesAt(t, i, <<"*", "*">>) THEN i + 2 ELSE i

\* \s* at index i, taken whole: the index of the first character after it
SkipWhite(t, i) ==
    LET js == {j \in i .. Len(t) : ~IsWhite(t[j])}
    IN  IF js = {} THEN Len(t) + 1 ELSE Least(js)

\* the index of the first \n at or after j, or the end of the text
LineEnd(t, j) ==
    LET es == {e \in j .. Len(t) : t[e] = "\n"}
    IN  IF es = {} THEN Len(t) + 1 ELSE Least(es)

Sub(t, a, b) == IF a <= b THEN SubSeq(t, a, b) ELSE <<>>

\* word(?:\*\*)?: with the word at index k: the index of the colon, or 0
ColonAfter(t, k, w) ==
    LET c == AfterStars(t, k + Len(w))
    IN  IF c <= Len(t) /\ t[c] = ":" THEN c ELSE 0

\* String.prototype.match: the first group of the leftmost match, where
\* Group(t, k) is the group of the match of the word at index k, if any
FirstMatch(Group(_, _), t) ==
    LET ks == {k \in 1 .. Len(t) : Given(Group(t, k))}
    IN  IF ks = {} THEN None ELSE Group(t, Least(ks))

WordGoal        == <<"g", "o", "a", "l">>
WordDescription == <<"d", "e", "s", "c", "r", "i", "p", "t", "i", "o", "n">>
WordSteps       == <<"s", "t", "e", "p", "s">>
WordDaily       == <<"d", "a", "i", "l", "y">>

\* /(?:\*\*)?Goal(?:\*\*)?:\s*(.+?)(?:\n|$)/i with "Goal" at index k: \s*
\* runs to the first character that is not white space and the group to
\* the end of that line; with nothing but white space left, \s* gives back
\* up to the last blank, which is then the group
GoalGroup(t, k) ==
    LET c == ColonAfter(t, k, WordGoal)
        j == SkipWhite(t, c + 1)
    IN  IF ~MatchesAt(t, k, WordGoal) \/ c = 0 THEN None
        ELSE IF j <= Len(t) THEN Some(Sub(t, j, LineEnd(t, j) - 1))
        ELSE IF \E s \in c + 1 .. Len(t) : t[s] = " " THEN Some(<<" ">>)
        ELSE None

goalMatch(text) == FirstMatch(GoalGroup, text)

\* part_003 27, part_004 27
goalTitle(text) ==
    IF Given(goalMatch(text)) THEN Trim(goalMatch(text)[1])
    ELSE <<"N", "e", "w", " ", "G", "o", "a", "l">>

\* \n(?:\*\*)?(?:Daily\s+)?Steps at index e
StepsHeadAt(t, e) ==
    /\ e <= Len(t)
    /\ t[e] = "\n"
    /\ LET a == AfterStars(t, e + 1)
       IN  \/ MatchesAt(t, a, WordSteps)
           \/ /\ MatchesAt(t, a, WordDaily)
              /\ a + 5 <= Len(t)
              /\ IsWhite(t[a + 5])
              /\ MatchesAt(t, SkipWhite(t, a + 5), WordSteps)

\* /(?:\*\*)?Description(?:\*\*)?:\s*(.+?)(?:\n(?:\*\*)?(?:Daily\s+)?Steps|$)/is
\* with "Description" at index k: the group runs, across lines, to the
\* first steps heading or to the end of the text
DescriptionGroup(t, k) ==
    LET c  == ColonAfter(t, k, WordDescription)
        j  == SkipWhite(t, c + 1)
        es == {e \in j + 1 .. Len(t) : StepsHeadAt(t, e)}
    IN  IF ~MatchesAt(t, k, WordDescription) \/ c = 0 THEN None
        ELSE IF j <= Len(t)
             THEN Some(Sub(t, j, (IF es = {} THEN Len(t) + 1 ELSE Least(es)) - 1))
        ELSE IF c < Len(t) THEN Some(<<t[Len(t)]>>)
        ELSE None

descriptionMatch(text) == FirstMatch(DescriptionGroup, text)

\* part_003 33, part_004 33: null is None
description(text) ==
    IF Given(descriptionMatch(text)) THEN Some(Trim(descriptionMatch(text)[1]))
    ELSE None

\* (?:\*\*)?:?\s* after "Steps" at index k: the first and last index of \s*
LabelWhite(t, k) ==
    LET a == AfterStars(t, k + 5)
        b == IF a <= Len(t) /\ t[a] = ":" THEN a + 1 ELSE a
    IN  <<b, SkipWhite(t, b) - 1>>

\* /(?:\*\*)?(?:Daily\s+)?Steps(?:\*\*)?:?\s*\n(.+)/is with "Steps" at index
\* k (part_003 36-38): \n is the last line break of the white space after
\* the label that has text after it, and the group is all that text
StepsSectionGroup(t, k) ==
    LET w  == LabelWhite(t, k)
        ps == {p \in w[1] .. w[2] : t[p] = "\n" /\ p < Len(t)}
    IN  IF ~MatchesAt(t, k, WordSteps) \/ ps = {} THEN None
        ELSE Some(Sub(t, Max(ps) + 1, Len(t)))

stepsSectionMatch(text) == FirstMatch(StepsSectionGroup, text)

\* (?:\d+\.|[-*]) at index a: the index after it, or 0
Marker(t, a) ==
    LET d == Least({e \in a .. Len(t) + 1 :
                        e = Len(t) + 1 \/ ~IsDigit(t[e])})
    IN  IF a > Len(t) THEN 0
        ELSE IF t[a] \in {"-", "*"} THEN a + 1
        ELSE IF d > a /\ d <= Len(t) /\ t[d] = "." THEN d + 1
        ELSE 0

\* one round of ((?:\d+\.|[-*])\s*.+?(?:\n|$))+ at index a: the index of
\* its last character, or 0; .+? stops at the first line break after the
\* first character that is not white space
IterationEnd(t, a) ==
    LET m == Marker(t, a)
        j == SkipWhite(t, m)
    IN  IF m = 0 \/ m > Len(t) THEN 0
        ELSE IF j <= Len(t)
             THEN (IF LineEnd(t, j) <= Len(t) THEN LineEnd(t, j) ELSE Len(t))
        ELSE Len(t)

\* the group of a repeated round is the text of the last round
RECURSIVE LastIteration(_, _)
LastIteration(t, a) ==
    LET e == IterationEnd(t, a)
    IN  IF IterationEnd(t, e + 1) = 0 THEN Sub(t, a, e)
        ELSE LastIteration(t, e + 1)

\* /(?:\*\*)?(?:Daily\s+)?Steps(?:\*\*)?:?\s*\n((?:\d+\.|[-*])\s*.+?(?:\n|$))+/is
\* with "Steps" at index k (part_004 36-38)
StepsGroup(t, k) ==
    LET w  == LabelWhite(t, k)
        ps == {p \in w[1] .. w[2] : t[p] = "\n" /\ IterationEnd(t, p + 1) # 0}
    IN  IF ~MatchesAt(t, k, WordSteps) \/ ps = {} THEN None
        ELSE Some(LastIteration(t, Max(ps) + 1))

stepsMatch(text) == FirstMatch(StepsGroup, text)

\* text.split(/\n/).map((line) => line.trim())
TrimmedLines(t) ==
    LET nl     == {i \in 1 .. Len(t) : t[i] = "\n"}
        Nth(k) == IF k = 0 THEN 0
                  ELSE IF k > Cardinality(nl) THEN Len(t) + 1
                  ELSE CHOOSE i \in nl : Cardinality({j \in nl : j <= i}) = k
    IN  [k \in 1 .. Cardinality(nl) + 1 |->
            Trim(Sub(t, Nth(k - 1) + 1, Nth(k) - 1))]

\* the first group of /^\d+\.\s*(.+)/.exec(line)
numbered(line) ==
    LET m == Marker(line, 1)
        j == SkipWhite(line, m)
    IN  IF Len(line) = 0 \/ m = 0 \/ ~IsDigit(line[1]) THEN None
        ELSE IF j <= Len(line) THEN Some(Sub(line, j, Len(line)))
        ELSE IF m <= Len(line) THEN Some(<<line[Len(line)]>>)
        ELSE None

\* the first group of /^[-*]\s*(.+)/.exec(line)
bulleted(line) ==
    LET j == SkipWhite(line, 2)
    IN  IF Len(line) = 0 \/ line[1] \notin {"-", "*"} THEN None
        ELSE IF j <= Len(line) THEN Some(Sub(line, j, Len(line)))
        ELSE IF 1 < Len(line) THEN Some(<<line[Len(line)]>>)
        ELSE None

\* numbered?.[1]?.trim() ?? bulleted?.[1]?.trim() ?? ""
LineTitle(line) ==
    IF Given(numbered(line)) THEN Trim(numbered(line)[1])
    ELSE IF Given(bulleted(line)) THEN Trim(bulleted(line)[1])
    ELSE <<>>

\* part_003 45-58, part_004 45-58: the lines of a block that are list
\* items, as titles, the empty ones dropped
stepLines(block) ==
    LET IsItem(line) == Given(numbered(line)) \/ Given(bulleted(line))
        NonEmpty(s)  == Len(s) > 0
        items        == SelectSeq(TrimmedLines(block), IsItem)
    IN  SelectSeq([i \in 1 .. Len(items) |-> LineTitle(items[i])], NonEmpty)

\* part_004 64-73: the same over lines that pass /^\d+\.|^[-*]/
listItems(text) ==
    LET IsItem(line) == Marker(line, 1) # 0
        NonEmpty(s)  == Len(s) > 0
        items        == SelectSeq(TrimmedLines(text), IsItem)
    IN  SelectSeq([i \in 1 .. Len(items) |-> LineTitle(items[i])], NonEmpty)

\* String.prototype.includes
Includes(s, part) ==
    \E i \in 1 .. Len(s) - Len(part) + 1 : Sub(s, i, i + Len(part) - 1) = part

\* part_003 61-91: the filter keeps a title unless this holds
IsDuplicate(title, gTitle, desc) ==
    LET titleLower       == toLowerCase(title)
        goalTitleLower   == toLowerCase(gTitle)
        descriptionLower == IF Given(desc) THEN toLowerCase(desc[1]) ELSE <<>>
    IN  \/ titleLower = goalTitleLower
        \/ titleLower = descriptionLower
        \/ Len(goalTitleLower) > 5 /\ Includes(titleLower, goalTitleLower)
        \/ Len(descriptionLower) > 5 /\ Includes(titleLower, descriptionLower)

WithoutDuplicates(titles, gTitle, desc) ==
    LET Kept(title) == ~IsDuplicate(title, gTitle, desc)
    IN  SelectSeq(titles, Kept)

DefaultStep ==
    <<"S", "t", "a", "r", "t", " ", "w", "o", "r", "k", "i", "n", "g", " ",
      "o", "n", " ", "y", "o", "u", "r", " ", "g", "o", "a", "l">>

AsSteps(titles) == [i \in 1 .. Len(titles) |-> [title |-> titles[i]]]

\* part_003 24-105
extractPlanFromText_003(text) ==
    LET found == IF Given(stepsSectionMatch(text))
                 THEN WithoutDuplicates(stepLines(stepsSectionMatch(text)[1]),
                                        goalTitle(text), description(text))
                 ELSE <<>>
    IN  [goalTitle   |-> goalTitle(text),
         description |-> description(text),
         steps       |-> AsSteps(IF Len(found) = 0 THEN <<DefaultStep>> ELSE found)]

\* part_004 24-89
extractPlanFromText_004(text) ==
    LET found  == IF Given(stepsMatch(text))
                  THEN stepLines(stepsMatch(text)[1])
                  ELSE <<>>
        listed == IF Len(found) = 0 THEN listItems(text) ELSE found
    IN  [goalTitle   |-> goalTitle(text),
         description |-> description(text),
         steps       |-> AsSteps(IF Len(listed) = 0 THEN <<DefaultStep>> ELSE listed)]

----------------------------------------------------------------------------
(* The message texts: lines with and without the labels, list items that
   repeat or contain the goal title or the description in other letter
   case, joined by line breaks *)

\* Goal: Run far
LineGoal ==
    <<"G", "o", "a", "l", ":", " ",
      "R", "u", "n", " ", "f", "a", "r">>

\* goal: Run
LineGoalShort == <<"g", "o", "a", "l", ":", " ", "R", "u", "n">>

\* Description: Jog now
LineDescription ==
    <<"D", "e", "s", "c", "r", "i", "p", "t", "i", "o",
      "n", ":", " ", "J", "o", "g", " ", "n", "o", "w">>

\* Steps:
LineSteps == <<"S", "t", "e", "p", "s", ":">>

\* **Daily Steps**:
LineDailySteps ==
    <<"*", "*", "D", "a", "i", "l", "y", " ",
      "S", "t", "e", "p", "s", "*", "*", ":">>

\* 1. RUN FAR
LineGoalAgain == <<"1", ".", " ", "R", "U", "N", " ", "F", "A", "R">>

\* - Run far now
LineGoalWithin ==
    <<"-", " ", "R", "u", "n", " ",
      "f", "a", "r", " ", "n", "o", "w">>

\* 2. Run
LineShortAgain == <<"2", ".", " ", "R", "u", "n">>

\* - jog NOW
LineDescriptionAgain == <<"-", " ", "j", "o", "g", " ", "N", "O", "W">>

\* * Swim
LineSwim == <<"*", " ", "S", "w", "i", "m">>

\* text
LinePlain == <<"t", "e", "x", "t">>

PlanLines ==
    {LineGoal, LineGoalShort, LineDescription, LineSteps,
     LineDailySteps, LineGoalAgain, LineGoalWithin, LineShortAgain,
     LineDescriptionAgain, LineSwim, LinePlain}

\* the most lines of a message text
MaxLines == 4

RECURSIVE JoinLines(_)
JoinLines(ls) ==
    IF Len(ls) = 1 THEN ls[1] ELSE ls[1] \o <<"\n">> \o JoinLines(Tail(ls))

PlanTexts == {JoinLines(ls) : ls \in SeqsUpTo(PlanLines, MaxLines) \ {<<>>}}

\* the button is rendered with the text of a message
InitExtract ==
    \E text \in PlanTexts :
        /\ goals = <<>>
        /\ steps = <<>>
        /\ goalSeq = 0
        /\ stepSeq = 0
        /\ proc = [p \in Procs |->
                     IF p = "p1"
                     THEN Frame("PlanActionButton", "u1", "extractPlanFromText",
                                [messageText |-> text], "text", <<>>)
                     ELSE Idle]
        /\ messages = Messages
        /\ button = Unclicked

\* handleCreateGoal of part_003, line 114: the plan of the message text
extractPlanFromText_part003(p) ==
    /\ proc[p].pc = "text"
    /\ proc' = [proc EXCEPT ![p] =
            Returned("part_003", proc[p].sess, proc[p].op, proc[p].arg,
                     Ok(extractPlanFromText_003(proc[p].arg.messageText)))]
    /\ UNCHANGED <<goals, steps, goalSeq, stepSeq, messages, button>>

\* handleCreateGoal of part_004, line 98
extractPlanFromText_part004(p) ==
    /\ proc[p].pc = "text"
    /\ proc' = [proc EXCEPT ![p] =
            Returned("part_004", proc[p].sess, proc[p].op, proc[p].arg,
                     Ok(extractPlanFromText_004(proc[p].arg.messageText)))]
    /\ UNCHANGED <<goals, steps, goalSeq, stepSeq, messages, button>>

NextExtract ==
    \E p \in {"p1"} :
        \/ extractPlanFromText_part003(p)
        \/ extractPlanFromText_part004(p)
        \/ Return(p)

SpecExtract == InitExtract /\ [][NextExtract]_vars

\* the text has the label: the word, emphasis markers or none, a colon
HasLabel(t, w) ==
    \E k \in 1 .. Len(t) : MatchesAt(t, k, w) /\ ColonAfter(t, k, w) # 0

\* the line breaks of the white space after the label "Steps" at index k
LabelBreaks(t, k) ==
    IF MatchesAt(t, k, WordSteps)
    THEN {p \in LabelWhite(t, k)[1] .. LabelWhite(t, k)[2] : t[p] = "\n"}
    ELSE {}

\* the text has a steps label followed by a line break
HasStepsLabel(t) == \E k \in 1 .. Len(t) : LabelBreaks(t, k) # {}

\* the text after the first steps label, or the entire text without one
CandidateBlock(t) ==
    IF HasStepsLabel(t)
    THEN LET k == Least({i \in 1 .. Len(t) : LabelBreaks(t, i) # {}})
         IN  Sub(t, Least(LabelBreaks(t, k)) + 1, Len(t))
    ELSE t

\* the titles of the list items of the candidate block that are neither
\* empty nor duplicates of the goal title or the description, in order
Survivors(t) ==
    WithoutDuplicates(stepLines(CandidateBlock(t)), goalTitle(t), description(t))

\* a call of extractPlanFromText has returned to p
Extracted(p) == proc[p].pc = "done" /\ proc[p].op = "extractPlanFromText"

StepTitles(plan) == [i \in 1 .. Len(plan.steps) |-> plan.steps[i].title]

\* C28: extract returns at least one step for every text; the step list is
\* the single default step "Start working on your goal" when no candidate
\* line survives the filters; the goal title is "New Goal" without a Goal
\* label and the description null without a Description label
C28_DefaultStep ==
    \A p \in Procs :
        Extracted(p)
        => LET text == proc[p].arg.messageText
               plan == proc[p].l.value
           IN  /\ ~IsErr(proc[p].l)
               /\ Len(plan.steps) >= 1
               /\ Survivors(text) = <<>>
                    => plan.steps = <<[title |-> DefaultStep]>>
               /\ ~HasLabel(text, WordGoal)
                    => plan.goalTitle = <<"N", "e", "w", " ", "G", "o", "a", "l">>
               /\ ~HasLabel(text, WordDescription)
                    => plan.description = None

\* a is b with some of its elements left out
IsSubsequence(a, b) ==
    \E f \in [1 .. Len(a) -> 1 .. Len(b)] :
        /\ \A i \in 1 .. Len(a) : b[f[i]] = a[i]
        /\ \A i \in 1 .. Len(a) - 1 : f[i] < f[i + 1]

\* C29: for a text without a steps label, every numbered or bulleted line of
\* the whole text that survives the duplicate filter is returned as a step,
\* in the order of the text, and the default step is not returned
C29_WholeTextFallback ==
    \A p \in Procs :
        Extracted(p)
        => LET text == proc[p].arg.messageText
               plan == proc[p].l.value
           IN  (~HasStepsLabel(text) /\ Survivors(text) # <<>>)
               => /\ IsSubsequence(Survivors(text), StepTitles(plan))
                  /\ StepTitles(plan) # <<DefaultStep>>

\* C30: no step returned from a candidate line equals the goal title or the
\* description in any letter case, or contains one of them that is longer
\* than 5 characters; the other candidate lines are all returned, in the
\* order of the text (the default step returned for a text without a steps
\* label is the case of C29_WholeTextFallback)
C30_NoDuplicateSteps ==
    \A p \in Procs :
        Extracted(p)
        => LET text   == proc[p].arg.messageText
               plan   == proc[p].l.value
               titles == StepTitles(plan)
           IN  /\ titles # <<DefaultStep>>
                    => \A i \in 1 .. Len(titles) :
                          ~IsDuplicate(titles[i], plan.goalTitle, plan.description)
               /\ ( /\ Survivors(text) # <<>>
                    /\ HasStepsLabel(text) \/ titles # <<DefaultStep>> )
                    => titles = Survivors(text)

----------------------------------------------------------------------------
(* deleteTrailingMessages, actions.ts 41-48, with getMessageById (queries.ts
   452-461) and deleteMessagesByChatIdAfterTimestamp (463-501);
   Goal_createdFromMessageId_Message_v2_id_fk ON DELETE set null *)

\* the messages of the chat of message id that are not older than it
\* (m1 is the last message of its chat)
NotOlder(id) == {id} \cap messages

\* 42-44: `message.chatId` of no message is a TypeError
deleteTrailingMessages(p, id) ==
    /\ proc[p].pc = "idle"
    /\ proc' = [proc EXCEPT ![p] =
            IF id \in messages
            THEN Frame("deleteTrailingMessages", NoUser,
                       "deleteMessagesByChatIdAfterTimestamp", [id |-> id],
                       "dm_select", <<>>)
            ELSE Returned("deleteTrailingMessages", NoUser,
                          "deleteTrailingMessages", [id |-> id], Err("TypeError"))]
    /\ UNCHANGED <<goals, steps, goalSeq, stepSeq, messages, button>>

\* 471-480
deleteMessagesByChatIdAfterTimestamp_Select(p) ==
    /\ proc[p].pc = "dm_select"
    /\ LET messageIds == NotOlder(proc[p].arg.id)
       IN  proc' = [proc EXCEPT ![p] =
                IF messageIds = {} THEN Done(p, Ok(NullRow))
                ELSE At(p, "dm_delete", [messageIds |-> messageIds])]
    /\ UNCHANGED <<goals, steps, goalSeq, stepSeq, messages, button>>

\* the foreign key of table "Goal" on a delete from "Message_v2"
SetNull(rows, messageIds) ==
    [g \in DOMAIN rows |->
        IF rows[g].createdFromMessageId \in messageIds
        THEN [rows[g] EXCEPT !.createdFromMessageId = NULL]
        ELSE rows[g]]

\* 489-493: the delete waits for an open transaction that has inserted a
\* goal made from one of the messages
deleteMessagesByChatIdAfterTimestamp_Delete(p) ==
    /\ proc[p].pc = "dm_delete"
    /\ LET messageIds == proc[p].l.messageIds
       IN  /\ \A q \in Procs \ {p} :
                  InTx(q) => \A g \in DOMAIN proc[q].l.tgoals :
                                proc[q].l.tgoals[g].createdFromMessageId \notin messageIds
           /\ messages' = messages \ messageIds
           /\ goals' = SetNull(goals, messageIds)
    /\ proc' = [proc EXCEPT ![p] = Done(p, Ok(Success))]
    /\ UNCHANGED <<steps, goalSeq, stepSeq, button>>

\* every operation on goals, steps and messages, one request at a time
NextIdentity ==
    \E p \in {"p1"} :
        \/ createGoalFromPlan(p, "u1", "c1", "m1", Ta, None, OneStep)
        \/ createGoalWithSteps_Goal(p)
        \/ createGoalWithSteps_Steps(p)
        \/ \E g \in SharedGoals : createStep(p, g, Ta, None)
        \/ createStep_Goal(p)
        \/ createStep_Max(p)
        \/ createStep_Insert(p)
        \/ \E g \in SharedGoals :
              updateGoal(p, [id |-> g, title |-> Some(Tb), description |-> Some(NULL),
                             status |-> Some("completed"), priority |-> Some("low"),
                             deadline |-> Some("t1")])
        \/ updateGoal_Select(p)
        \/ updateGoal_Update(p)
        \/ \E sid \in SharedSteps : updateStep(p, sid, Some(Tb), Some(TRUE))
        \/ updateStep_Select(p)
        \/ updateStep_Update(p)
        \/ \E sid \in SharedSteps : toggleStepCompletion(p, sid)
        \/ toggleStepCompletion_Select(p)
        \/ toggleStepCompletion_Update(p)
        \/ \E g \in SharedGoals :
              reorderSteps(p, g, <<[id |-> 1, order |-> 1], [id |-> 2, order |-> 0]>>)
        \/ reorderSteps_Select(p)
        \/ reorderSteps_Update(p)
        \/ \E g \in SharedGoals, u \in UNION {BulkChanges(s) : s \in SharedSteps} :
              bulkUpdateSteps(p, g, <<u>>)
        \/ bulkUpdateSteps_Select(p)
        \/ bulkUpdateSteps_Update(p)
        \/ \E sid \in SharedSteps : deleteStep(p, sid)
        \/ deleteStep_Select(p)
        \/ deleteStep_Delete(p)
        \/ deleteStep_Remaining(p)
        \/ deleteStep_Renumber(p)
        \/ \E g \in KnownGoals : deleteGoal(p, g)
        \/ \E m \in Messages : deleteTrailingMessages(p, m)
        \/ deleteMessagesByChatIdAfterTimestamp_Select(p)
        \/ deleteMessagesByChatIdAfterTimestamp_Delete(p)
        \/ TxCommit(p)
        \/ TxFail(p)
        \/ Return(p)

SpecIdentity == Init /\ [][NextIdentity]_vars

\* the fields of a goal and of a step that are fixed at creation (the id is
\* the key of the row)
GoalIdentity == {"chatId", "userId", "createdFromMessageId", "createdAt"}
StepIdentity == {"goalId", "createdAt"}

\* C31: no step of any operation changes the chatId, userId,
\* createdFromMessageId or createdAt of a goal that exists before and after
\* it, nor the goalId or createdAt of such a step (a row is kept under its
\* id, which no statement rewrites)
C31_IdentityImmutable ==
    [][/\ \A g \in DOMAIN goals \cap DOMAIN goals' :
              \A f \in GoalIdentity : goals'[g][f] = goals[g][f]
       /\ \A s \in DOMAIN steps \cap DOMAIN steps' :
              \A f \in StepIdentity : steps'[s][f] = steps[s][f]]_vars

\* the same without createdFromMessageId
C31_IdentityButMessage ==
    [][/\ \A g \in DOMAIN goals \cap DOMAIN goals' :
              \A f \in GoalIdentity \ {"createdFromMessageId"} :
                  goals'[g][f] = goals[g][f]
       /\ \A s \in DOMAIN steps \cap DOMAIN steps' :
              \A f \in StepIdentity : steps'[s][f] = steps[s][f]]_vars

----------------------------------------------------------------------------
(* Orders given by the caller *)

\* `order` as a caller may give it: left out, zero, or below zero
GivenOrders == {None, Some(0), Some(0 - 1)}

NextOrder ==
    \E p \in {"p1"} :
        \/ createGoal(p, GoalArgs("c1", "u1", Ta))
        \/ \E g \in SharedGoals, o \in GivenOrders : createStep(p, g, Ta, o)
        \/ createStep_Goal(p)
        \/ createStep_Max(p)
        \/ createStep_Insert(p)
        \/ \E g \in SharedGoals, o \in GivenOrders :
              createSteps(p, g, <<[title |-> Ta, order |-> o]>>)
        \/ createSteps_Max(p)
        \/ createSteps_Insert(p)
        \/ \E o \in GivenOrders :
              createGoalWithSteps(p, [GoalArgs("c1", "u1", Ta) EXCEPT
                                         !.createdFromMessageId = Some("m1")]
                                     @@ [steps |-> <<[title |-> Ta, order |-> o]>>])
        \/ createGoalWithSteps_Goal(p)
        \/ createGoalWithSteps_Steps(p)
        \/ \E g \in SharedGoals, sid \in SharedSteps, o \in {0, 0 - 1} :
              reorderSteps(p, g, <<[id |-> sid, order |-> o]>>)
        \/ reorderSteps_Select(p)
        \/ reorderSteps_Update(p)
        \/ \E g \in SharedGoals, sid \in SharedSteps, o \in GivenOrders :
              bulkUpdateSteps(p, g, <<[id |-> sid, title |-> None,
                                       isCompleted |-> None, order |-> o]>>)
        \/ bulkUpdateSteps_Select(p)
        \/ bulkUpdateSteps_Update(p)
        \/ \E sid \in StepIds : deleteStep(p, sid)
        \/ deleteStep_Select(p)
        \/ deleteStep_Delete(p)
        \/ deleteStep_Remaining(p)
        \/ deleteStep_Renumber(p)
        \/ TxCommit(p)
        \/ TxFail(p)
        \/ Return(p)

SpecOrder == Init /\ [][NextOrder]_vars

\* C32: in every reachable state every step has an order of zero or more,
\* whatever orders are given to createStep, createSteps, createGoalWithSteps,
\* reorderSteps and bulkUpdateSteps
C32_OrdersNotNegative ==
    \A s \in DOMAIN steps : steps[s].order >= 0

----------------------------------------------------------------------------
(* updateStep and toggleStepCompletion on one step among others *)

NextFrame ==
    \E p \in {"p1"} :
        \/ createGoal(p, GoalArgs("c1", "u1", Ta))
        \/ \E g \in SharedGoals : createStep(p, g, Ta, None)
        \/ createStep_Goal(p)
        \/ createStep_Max(p)
        \/ createStep_Insert(p)
        \/ \E s \in StepIds, t \in {None, Some(Tb), Some(<<" ">>)},
              c \in {None, Some(TRUE), Some(FALSE)} : updateStep(p, s, t, c)
        \/ updateStep_Select(p)
        \/ updateStep_Update(p)
        \/ \E s \in StepIds : toggleStepCompletion(p, s)
        \/ toggleStepCompletion_Select(p)
        \/ toggleStepCompletion_Update(p)
        \/ Return(p)

SpecFrame == Init /\ [][NextFrame]_vars

\* C33: the write of updateStep leaves every other step and every goal as
\* it was, and of its own step the order, the title unless a title is
\* given, and isCompleted and completedAt unless isCompleted is given; the
\* write of toggleStepCompletion leaves every other step and the title and
\* order of its own; an updateStep that ends in not-found or in a
\* validation error has written nothing
C33_UpdateFrame ==
    [][\A p \in Procs :
          /\ (proc[p].pc \in {"us_update", "ts_update"} /\ proc'[p].pc = "done")
             => LET id == proc[p].arg.id
                IN  /\ goals' = goals
                    /\ DOMAIN steps' = DOMAIN steps
                    /\ \A s \in DOMAIN steps \ {id} : steps'[s] = steps[s]
                    /\ id \in DOMAIN steps
                       => /\ steps'[id].order = steps[id].order
                          /\ steps'[id].goalId = steps[id].goalId
                          /\ (proc[p].pc = "ts_update" \/ ~Given(proc[p].arg.title))
                             => steps'[id].title = steps[id].title
                          /\ (proc[p].pc = "us_update" /\ ~Given(proc[p].arg.isCompleted))
                             => /\ steps'[id].isCompleted = steps[id].isCompleted
                                /\ steps'[id].completedAt = steps[id].completedAt
          /\ ( \/ proc[p].pc = "idle" /\ proc'[p].pc = "us_select"
               \/ /\ proc[p].pc = "us_select" /\ proc'[p].pc = "done"
                  /\ proc'[p].l \in {Err(ErrNotFound), Err(ErrValidation)} )
             => steps' = steps /\ goals' = goals]_vars

\* updateStep with a title alone has rewritten the first step, which was
\* completed, next to a second step that was not
C33_Witness ==
    \E p \in Procs :
        /\ proc[p].pc = "done" /\ proc[p].op = "updateStep" /\ ~IsErr(proc[p].l)
        /\ proc[p].arg.id = 1
        /\ Given(proc[p].arg.title) /\ ~Given(proc[p].arg.isCompleted)
        /\ {1, 2} \subseteq DOMAIN steps
        /\ steps[1].title = Tb /\ steps[1].isCompleted /\ steps[1].completedAt # NULL
        /\ steps[2].title = Ta /\ ~steps[2].isCompleted

----------------------------------------------------------------------------
(* A write to a step that is deleted between its read and its write *)

\* the first request has read its step and not yet written it
HasRead(p) == proc[p].pc \in {"us_update", "ts_update", "ro_update", "bu_update"}

\* the step a request is about
TargetOf(p) ==
    IF proc[p].op \in {"reorderSteps", "bulkUpdateSteps"}
    THEN proc[p].arg.entries[1].id
    ELSE proc[p].arg.id

\* the second request builds a goal and its steps, the first reads one of
\* them, the second deletes the step the first has read, and the first writes
\* once the second has ended
NextGone ==
    \/ /\ Quiet("p1")
       /\ Cardinality(DOMAIN steps) = MaxSteps
       /\ \E sid \in SharedSteps :
             \/ updateStep("p1", sid, Some(Tb), Some(TRUE))
             \/ toggleStepCompletion("p1", sid)
             \/ reorderSteps("p1", steps[sid].goalId, <<[id |-> sid, order |-> 5]>>)
             \/ bulkUpdateSteps("p1", steps[sid].goalId,
                                <<[id |-> sid, title |-> Some(Tb),
                                   isCompleted |-> Some(TRUE), order |-> Some(5)]>>)
    \/ updateStep_Select("p1")
    \/ toggleStepCompletion_Select("p1")
    \/ reorderSteps_Select("p1")
    \/ bulkUpdateSteps_Select("p1")
    \/ /\ Quiet("p1")
       /\ \/ updateStep_Update("p1")
          \/ toggleStepCompletion_Update("p1")
          \/ reorderSteps_Update("p1")
          \/ bulkUpdateSteps_Update("p1")
    \/ /\ Quiet("p2")
       /\ \/ goals = <<>> /\ createGoal("p2", GoalArgs("c1", "u1", Ta))
          \/ \E g \in DOMAIN goals : createStep("p2", g, Ta, None)
    \/ createStep_Goal("p2")
    \/ createStep_Max("p2")
    \/ createStep_Insert("p2")
    \/ /\ HasRead("p1")
       /\ deleteStep("p2", TargetOf("p1"))
    \/ deleteStep_Select("p2")
    \/ deleteStep_Delete("p2")
    \/ deleteStep_Remaining("p2")
    \/ deleteStep_Renumber("p2")
    \/ \E p \in Procs : TxCommit(p)
    \/ \E p \in Procs : TxFail(p)
    \/ \E p \in Procs : Return(p)

SpecGone == Init /\ [][NextGone]_vars

\* C34: a deleted step never reappears: a row enters table "Step" only by an
\* insert under the next id of the sequence, and when update, toggleCompletion,
\* reorder or bulkUpdate has read a step that deleteStep then removed, no
\* statement of it changes a stored step, so the step stays absent and its
\* siblings keep their renumbered orders
C34_DeletedStaysAbsent ==
    [][ /\ \A s \in DOMAIN steps' \ DOMAIN steps :
              stepSeq' = stepSeq + 1 /\ s = stepSeq'
        /\ \A p \in Procs :
              ( /\ proc[p].pc \in {"us_update", "ts_update", "ro_update",
                                   "bu_update", "ro_select", "bu_select", "commit"}
                /\ proc[p].op \in {"updateStep", "toggleStepCompletion",
                                   "reorderSteps", "bulkUpdateSteps"}
                /\ TargetOf(p) \notin DOMAIN steps
                /\ proc'[p] # proc[p] )
              => steps' = steps ]_vars

\* updateStep has written after the deleteStep of its step committed: the
\* step is absent and the two steps left are numbered 0 and 1
C34_Witness ==
    /\ proc["p1"].pc = "done"
    /\ proc["p1"].op = "updateStep"
    /\ proc["p1"].l = Ok(Updated)
    /\ proc["p2"].pc = "done"
    /\ proc["p2"].op = "deleteStep"
    /\ proc["p2"].arg.id = proc["p1"].arg.id
    /\ ~IsErr(proc["p2"].l)
    /\ proc["p1"].arg.id \notin DOMAIN steps
    /\ {steps[s].order : s \in DOMAIN steps} = {0, 1}
    /\ Cardinality(DOMAIN steps) = 2


----------------------------------------------------------------------------
(* deleteStep of an id that matches no step *)

\* steps are made and deleted through the store function, the server action
\* and the route, by ids of steps there are, were, or never were
NextAbsent ==
    \E p \in {"p1"} :
        \/ createGoal(p, GoalArgs("c1", "u1", Ta))
        \/ \E g \in GoalIds : createStep(p, g, Ta, None)
        \/ createStep_Goal(p)
        \/ createStep_Max(p)
        \/ createStep_Insert(p)
        \/ \E s \in StepIds : deleteStep(p, s)
        \/ \E sess \in Sessions, s \in StepIds : deleteStepAction(p, sess, s)
        \/ \E sess \in Sessions, id \in {None} \cup {Some(s) : s \in StepIds} :
              DELETE(p, sess, id)
        \/ deleteStep_Select(p)
        \/ deleteStep_Delete(p)
        \/ deleteStep_Remaining(p)
        \/ deleteStep_Renumber(p)
        \/ TxCommit(p)
        \/ TxFail(p)
        \/ Return(p)

SpecAbsent == Init /\ [][NextAbsent]_vars

\* the request is inside deleteStep and its id matches no step
DeletesNothing(p) ==
    /\ proc[p].pc \in {"ds_select", "commit"}
    /\ proc[p].op = "deleteStep"
    /\ proc[p].arg.id \notin DOMAIN steps

\* C35: deleteStep on an id that matches no step changes no goal and no step
\* (it renumbers nothing) and, unless a statement fails in the store, answers
\* null, and the deleteStep action and the DELETE route {success: true}, never
\* not-found; so deleting a step a second time leaves the state of the first
C35_DeleteAbsent ==
    [][ \A p \in Procs :
           (DeletesNothing(p) /\ proc'[p] # proc[p])
           => /\ goals' = goals
              /\ steps' = steps
              /\ proc'[p].pc = "done"
                 => proc'[p].l = IF IsErr(proc'[p].l) THEN Err(ErrDatabase)
                                 ELSE IF proc[p].via = "store" THEN Ok(NullRow)
                                 ELSE Ok(Success) ]_vars

\* the store function has answered null for a step that was deleted before,
\* with other steps in the table
C35_Witness ==
    /\ proc["p1"].pc = "done"
    /\ proc["p1"].op = "deleteStep"
    /\ proc["p1"].via = "store"
    /\ proc["p1"].l = Ok(NullRow)
    /\ proc["p1"].arg.id <= stepSeq
    /\ steps # <<>>


----------------------------------------------------------------------------
(* The goal that createGoalFromPlan stores *)

\* the message ids a plan may name: of a message, of none
PlanMessages == Messages \cup {"m2"}

NextOwn ==
    \E p \in {"p1"} :
        \/ \E sess \in Sessions, c \in PlanChats, m \in PlanMessages,
              d \in {None, Some(<<"d">>)} :
              createGoalFromPlan(p, sess, c, m, Ta, d, OneStep)
        \/ createGoalWithSteps_Goal(p)
        \/ createGoalWithSteps_Steps(p)
        \/ TxCommit(p)
        \/ TxFail(p)
        \/ Return(p)

SpecOwn == Init /\ [][NextOwn]_vars

\* C36: the goal a createGoalFromPlan request commits is new, has the
\* requester of the request as userId, who is signed in and owns the chat of
\* its chatId, has the message id of the request as createdFromMessageId, and
\* has status not_started and priority medium; and every goal stored is of the
\* owner of its chat
C36_PlanGoalFields ==
    /\ [][\A p \in Procs :
            (proc[p].pc = "commit" /\ proc[p].via = "createGoalFromPlan"
               /\ proc'[p].pc = "done" /\ ~IsErr(proc'[p].l))
            => LET g == proc'[p].l.value.goal
                   a == proc[p].arg
               IN  /\ g \in DOMAIN goals' \ DOMAIN goals
                   /\ proc[p].sess \in Users
                   /\ goals'[g].userId = proc[p].sess
                   /\ goals'[g].chatId = a.chatId
                   /\ goals'[g].userId = ChatOwner[a.chatId]
                   /\ a.createdFromMessageId \in {Some(m) : m \in Messages}
                   /\ goals'[g].createdFromMessageId = a.createdFromMessageId[1]
                   /\ goals'[g].status = "not_started"
                   /\ goals'[g].priority = "medium"]_vars
    /\ [](\A g \in DOMAIN goals : goals[g].userId = ChatOwner[goals[g].chatId])

\* u2 has stored a plan for the chat of u2, made from message m1
C36_Witness ==
    /\ proc["p1"].pc = "done"
    /\ proc["p1"].via = "createGoalFromPlan"
    /\ proc["p1"].sess = "u2"
    /\ ~IsErr(proc["p1"].l)
    /\ LET g == proc["p1"].l.value.goal
       IN  /\ g \in DOMAIN goals
           /\ goals[g].userId = "u2"
           /\ goals[g].chatId = "c2"
           /\ goals[g].createdFromMessageId = "m1"
           /\ goals[g].status = "not_started"
           /\ goals[g].priority = "medium"


----------------------------------------------------------------------------
(* What deleteStep leaves alone *)

\* two goals get steps, appended or at order 2, the first step is completed
\* and reopened, and steps are deleted
NextOther ==
    \E p \in {"p1"} :
        \/ createGoal(p, GoalArgs("c1", "u1", Ta))
        \/ \E g \in GoalIds : \/ createStep(p, g, Ta, None)
                              \/ createStep(p, g, Tb, Some(2))
        \/ createStep_Goal(p)
        \/ createStep_Max(p)
        \/ createStep_Insert(p)
        \/ \E s \in SharedSteps : toggleStepCompletion(p, s)
        \/ toggleStepCompletion_Select(p)
        \/ toggleStepCompletion_Update(p)
        \/ \E s \in StepIds : deleteStep(p, s)
        \/ deleteStep_Select(p)
        \/ deleteStep_Delete(p)
        \/ deleteStep_Remaining(p)
        \/ deleteStep_Renumber(p)
        \/ TxCommit(p)
        \/ TxFail(p)
        \/ Return(p)

SpecOther == Init /\ [][NextOther]_vars

\* C37: a statement of deleteStep (its commit among them) changes no goal,
\* removes no step but the one deleted, leaves every step of another goal as
\* it is, and changes of the remaining steps of the deleted step's own goal
\* nothing but the order
C37_DeleteFrame ==
    [][\A p \in Procs :
          (proc[p].pc # "idle" /\ proc[p].op = "deleteStep" /\ proc'[p] # proc[p])
          => LET id == proc[p].arg.id
             IN  /\ goals' = goals
                 /\ DOMAIN steps \ {id} \subseteq DOMAIN steps'
                 /\ DOMAIN steps' \subseteq DOMAIN steps
                 /\ \A s \in DOMAIN steps' \ {id} :
                       IF id \in DOMAIN steps /\ steps[s].goalId = steps[id].goalId
                       THEN steps'[s] = [steps[s] EXCEPT !.order = steps'[s].order]
                       ELSE steps'[s] = steps[s]]_vars

\* a step of goal 1 was deleted and a remaining step of goal 1, completed
\* and titled before, is at order 0, while goal 2 keeps a step at order 2
C37_Witness ==
    /\ proc["p1"].pc = "done"
    /\ proc["p1"].op = "deleteStep"
    /\ ~IsErr(proc["p1"].l)
    /\ proc["p1"].l.value # NullRow
    /\ proc["p1"].l.value.goalId = 1
    /\ \E s \in DOMAIN steps :
          /\ steps[s].goalId = 1 /\ steps[s].isCompleted /\ steps[s].title = Tb
          /\ steps[s].order = 0
    /\ \E s \in DOMAIN steps : steps[s].goalId = 2 /\ steps[s].order = 2


----------------------------------------------------------------------------
(* handleCreateGoal of PlanActionButton, part_003 107-141 (part_004 91-125) *)

\* the toasts one button may show before it is left alone
MaxToasts == 3

\* the steps of the extracted plan carry no order
WithoutOrder(data) == [i \in DOMAIN data |-> [title |-> data[i].title, order |-> None]]

\* the request createGoalFromPlan(...) as it stands after the checks of
\* actions.ts 73-103: answered at once, or on its way to createGoalWithSteps
PlanRequest(sess, chatId, messageId, plan) ==
    LET stepsData == WithoutOrder(plan.steps)
        arg == [chatId |-> chatId, messageId |-> messageId,
                goalTitle |-> plan.goalTitle,
                goalDescription |-> plan.description, steps |-> stepsData]
        refused(e) == Returned("createGoalFromPlan", sess, "createGoalFromPlan",
                               arg, Err(e))
    IN  IF ~Authenticated(sess) THEN refused(ErrUnauthorized)
        ELSE IF chatId \notin DOMAIN ChatOwner THEN refused(ErrChatMissing)
        ELSE IF ChatOwner[chatId] # sess THEN refused(ErrChatForeign)
        ELSE IF Blank(plan.goalTitle) \/ Len(stepsData) = 0
        THEN refused(ErrValidation)
        ELSE Frame("createGoalFromPlan", sess, "createGoalWithSteps",
                   [chatId |-> chatId, userId |-> sess,
                    title |-> Trim(plan.goalTitle),
                    description |-> IF Given(plan.description)
                                    THEN Some(Trim(plan.description[1]))
                                    ELSE Some(NULL),
                    status |-> None, priority |-> None, deadline |-> None,
                    createdFromMessageId |-> Some(messageId),
                    steps |-> TrimTitles(stepsData)],
                   "gw_goal", [tsteps |-> <<>>, tgoals |-> <<>>])

\* the two versions of extractPlanFromText
Extractors == {"part_003", "part_004"}

PlanOf(version, text) ==
    IF version = "part_003" THEN extractPlanFromText_003(text)
    ELSE extractPlanFromText_004(text)

handleCreateGoal_NoGuard(p, sess, version) ==
    /\ proc[p].pc = "idle"
    /\ Len(button.toasts) < MaxToasts
    /\ GoalRoom(1)
    /\ StepRoom(Len(PlanOf(version, button.messageText).steps))
    /\ button' = [button EXCEPT !.isLoading = TRUE]
    /\ proc' = [proc EXCEPT ![p] =
            PlanRequest(sess, button.chatId, button.messageId,
                        PlanOf(version, button.messageText))]
    /\ UNCHANGED <<goals, steps, goalSeq, stepSeq, messages>>

\* a click, served by request p: 108-121, up to the await
handleCreateGoal(p, sess, version) ==
    /\ proc[p].pc = "idle"
    /\ Len(button.toasts) < MaxToasts
    /\ IF button.isLoading \/ button.isCreated
       THEN UNCHANGED vars
       ELSE /\ GoalRoom(1)
            /\ StepRoom(Len(PlanOf(version, button.messageText).steps))
            /\ button' = [button EXCEPT !.isLoading = TRUE]
            /\ proc' = [proc EXCEPT ![p] =
                    PlanRequest(sess, button.chatId, button.messageId,
                                PlanOf(version, button.messageText))]
            /\ UNCHANGED <<goals, steps, goalSeq, stepSeq, messages>>

\* the await is over: 123-140
handleCreateGoal_Settled(p) ==
    /\ proc[p].pc = "done"
    /\ proc[p].via = "createGoalFromPlan"
    /\ button' = IF IsErr(proc[p].l)
                 THEN [button EXCEPT !.isLoading = FALSE,
                                     !.toasts = Append(@, "error")]
                 ELSE [button EXCEPT !.isLoading = FALSE,
                                     !.isCreated = TRUE,
                                     !.toasts = Append(@, "success")]
    /\ proc' = [proc EXCEPT ![p] = Idle]
    /\ UNCHANGED <<goals, steps, goalSeq, stepSeq, messages>>

\* Goal: Run far / Steps: / * Swim, and a text without labels
ButtonTexts == {JoinLines(<<LineGoal, LineSteps, LineSwim>>), LinePlain}

\* the button is rendered for message m1 of chat c1
InitButton ==
    \E text \in ButtonTexts :
        /\ goals = <<>>
        /\ steps = <<>>
        /\ goalSeq = 0
        /\ stepSeq = 0
        /\ proc = [p \in Procs |-> Idle]
        /\ messages = Messages
        /\ button = Unclicked @@ [chatId |-> "c1", messageId |-> "m1",
                                  messageText |-> text]

\* a request goes on at the server
Served(p) ==
    \/ createGoalWithSteps_Goal(p)
    \/ createGoalWithSteps_Steps(p)
    \/ TxCommit(p)

NextButton ==
    \E p \in Procs :
        \/ \E sess \in Sessions, version \in Extractors :
              handleCreateGoal(p, sess, version)
        \/ Served(p)
        \/ TxFail(p)
        \/ handleCreateGoal_Settled(p)

SpecButton == InitButton /\ [][NextButton]_vars

\* a request that was sent is answered, and the answer reaches the handler
SpecButtonFair ==
    SpecButton /\ \A p \in Procs : WF_vars(Served(p) \/ handleCreateGoal_Settled(p))

\* the requests of the button that are not yet settled
InFlight == {p \in Procs : proc[p].pc # "idle"}

\* C38: handleCreateGoal sends a createGoalFromPlan request only while none is
\* in flight and none has succeeded, so at most one request is in flight and
\* at most one goal is made however often the button is clicked; isLoading is
\* true exactly while a request is in flight and so returns to false after
\* every request, and after a failed request neither isLoading nor isCreated
\* is set, which is all the handler asks before it sends a request
C38_OneRequest ==
    /\ [][\A p \in Procs :
            (proc[p].pc = "idle" /\ proc'[p].pc # "idle")
            => /\ InFlight = {}
               /\ ~button.isLoading
               /\ ~button.isCreated]_vars
    /\ [](Cardinality(InFlight) <= 1)
    /\ [](Cardinality(DOMAIN goals) <= 1)
    /\ [](button.isLoading <=> InFlight # {})
    /\ [](button.isCreated <=> DOMAIN goals # {} /\ InFlight = {})
    /\ [][\A p \in Procs :
            (proc[p].pc = "done" /\ IsErr(proc[p].l) /\ proc'[p].pc = "idle")
            => /\ ~button'.isLoading
               /\ ~button'.isCreated]_vars
    /\ button.isLoading ~> ~button.isLoading

\* a first request failed, the button was used again, and the second request
\* made the goal
C38_Witness ==
    /\ button.toasts = <<"error", "success">>
    /\ button.isCreated
    /\ ~button.isLoading
    /\ Cardinality(DOMAIN goals) = 1
    /\ InFlight = {}


====
